---- MODULE Spec2Model ----
(***************************************************************************)
(* A model of the chat backend's connection registry (RoomManager), its   *)
(* room fan-out, and the per-connection WebSocket event router.           *)
(*                                                                         *)
(*   SpecRegistry : the RoomManager API called in any order               *)
(*   Spec         : the running system (connections, handlers, detached   *)
(*                  notification goroutines)                               *)
(*   SpecSession  : Spec without messaging: connections come and go and   *)
(*                  move between rooms                                     *)
(*   SpecChat     : Spec without connects and disconnects: established    *)
(*                  sessions exchange frames                               *)
(***************************************************************************)
EXTENDS Integers, Sequences, FiniteSets, TLC

VARIABLES
    rooms,       \* RoomManager.rooms    : room -> set of connIDs (handles)
    connMeta,    \* RoomManager.connMeta : connID -> [UserID, Username]
    registered,  \* history: sessions registered (Register/Join) and not unregistered
    api,         \* the last RoomManager call and what it returned / wrote
    conn,        \* per connection goroutine: pc, currentRoom, frame, effect log
    tasks,       \* detached notification goroutines
    db,          \* persisted messages (rows of the messages table)
    frames       \* inbound frames and uploads accepted so far (bounded)

vars == <<rooms, connMeta, registered, api, conn, tasks, db, frames>>

(***************************************************************************)
(* Bounds of the model                                                     *)
(***************************************************************************)
ConnIDs == {"c1", "c2", "c3"}
UserIDs == {1, 2, 3}
RoomIDs == {"r1", "r2"}

\* the credential each connection authenticates with (c.Locals("user_id"))
UserOf == [c \in ConnIDs |-> IF c = "c3" THEN 2 ELSE 1]
NameOf == [u \in UserIDs |-> IF u = 1 THEN "alice" ELSE IF u = 2 THEN "bob" ELSE "carol"]

(***************************************************************************)
(* Go maps                                                                 *)
(***************************************************************************)
EmptyMap == [k \in {} |-> {}]
MapPut(m, k, v) == [x \in (DOMAIN m) \cup {k} |-> IF x = k THEN v ELSE m[x]]
MapDel(m, k) == [x \in (DOMAIN m) \ {k} |-> m[x]]

(***************************************************************************)
(* RoomManager (rooms.go).  Every method runs under m.mu, so each is one  *)
(* atomic step on (rooms, connMeta).                                       *)
(***************************************************************************)
Meta(userID, username) == [UserID |-> userID, Username |-> username]

\* rooms.go:89  for _, meta := range m.connMeta { if meta.UserID == userID ... }
IsUserOnline(cm, userID) == \E k \in DOMAIN cm : cm[k].UserID = userID

\* mutant: reports the edge after the insert, so it never sees "was offline"
RegisterConnectionLate(cm, connID, userID, username) ==
    LET cm2 == MapPut(cm, connID, Meta(userID, username))
    IN  [connMeta |-> cm2, ret |-> ~IsUserOnline(cm2, userID)]

\* rooms.go:103
RegisterConnection(cm, connID, userID, username) ==
    LET wasOnline == \E k \in DOMAIN cm : cm[k].UserID = userID
    IN  [connMeta |-> MapPut(cm, connID, Meta(userID, username)),
         ret      |-> ~wasOnline]

\* mutant: removes the session from every room and keeps the rooms it empties
RECURSIVE RemoveFromRoomsKeepEmpty(_, _, _)
RemoveFromRoomsKeepEmpty(rm, todo, connID) ==
    IF todo = {} THEN rm
    ELSE LET room == CHOOSE r \in todo : TRUE
         IN  RemoveFromRoomsKeepEmpty(MapPut(rm, room, rm[room] \ {connID}),
                                      todo \ {room}, connID)

\* rooms.go:136-143  remove conn from all rooms, dropping rooms left empty
RECURSIVE RemoveFromRooms(_, _, _)
RemoveFromRooms(rm, todo, connID) ==
    IF todo = {} THEN rm
    ELSE LET room  == CHOOSE r \in todo : TRUE
             conns == rm[room] \ {connID}
             rm2   == IF connID \in rm[room]
                      THEN (IF conns = {} THEN MapDel(rm, room)
                                          ELSE MapPut(rm, room, conns))
                      ELSE rm
         IN  RemoveFromRooms(rm2, todo \ {room}, connID)

\* mutant: drops the session from the rooms but keeps its connMeta entry
UnregisterConnectionKeepMeta(rm, cm, connID) ==
    IF connID \notin DOMAIN cm
    THEN [rooms |-> rm, connMeta |-> cm, ret |-> FALSE]
    ELSE LET userID == cm[connID].UserID
             cm2    == MapDel(cm, connID)
         IN  [rooms    |-> RemoveFromRooms(rm, DOMAIN rm, connID),
              connMeta |-> cm,
              ret      |-> ~(\E k \in DOMAIN cm2 : cm2[k].UserID = userID)]

\* mutant: decides whether the user went offline before removing the entry
UnregisterConnectionEarly(rm, cm, connID) ==
    IF connID \notin DOMAIN cm
    THEN [rooms |-> rm, connMeta |-> cm, ret |-> FALSE]
    ELSE [rooms    |-> RemoveFromRooms(rm, DOMAIN rm, connID),
          connMeta |-> MapDel(cm, connID),
          ret      |-> ~(\E k \in DOMAIN cm : cm[k].UserID = cm[connID].UserID)]

\* mutant: no lookup of the id first; for an unknown id the user is the zero value
UnregisterConnectionUnchecked(rm, cm, connID) ==
    LET userID == IF connID \in DOMAIN cm THEN cm[connID].UserID ELSE 0
        cm2    == MapDel(cm, connID)
    IN  [rooms    |-> RemoveFromRooms(rm, DOMAIN rm, connID),
         connMeta |-> cm2,
         ret      |-> ~(\E k \in DOMAIN cm2 : cm2[k].UserID = userID)]

\* mutant: removes the metadata of every session of the user
UnregisterConnectionUser(rm, cm, connID) ==
    IF connID \notin DOMAIN cm
    THEN [rooms |-> rm, connMeta |-> cm, ret |-> FALSE]
    ELSE LET others == {k \in DOMAIN cm : cm[k].UserID # cm[connID].UserID}
         IN  [rooms    |-> RemoveFromRooms(rm, DOMAIN rm, connID),
              connMeta |-> [k \in others |-> cm[k]],
              ret      |-> TRUE]

\* rooms.go:124
UnregisterConnection(rm, cm, connID) ==
    IF connID \notin DOMAIN cm
    THEN [rooms |-> rm, connMeta |-> cm, ret |-> FALSE]
    ELSE LET userID == cm[connID].UserID
             rm2    == RemoveFromRooms(rm, DOMAIN rm, connID)
             cm2    == MapDel(cm, connID)
         IN  [rooms    |-> rm2,
              connMeta |-> cm2,
              ret      |-> ~(\E k \in DOMAIN cm2 : cm2[k].UserID = userID)]

\* rooms.go:30
Join(rm, cm, room, connID, userID, username) ==
    LET rm1 == IF room \in DOMAIN rm THEN rm ELSE MapPut(rm, room, {})
    IN  [rooms    |-> MapPut(rm1, room, rm1[room] \cup {connID}),
         connMeta |-> MapPut(cm, connID, Meta(userID, username))]

\* mutant: a Leave that removes nobody
LeaveKeep(rm, room, connID) == rm

\* rooms.go:42
Leave(rm, room, connID) ==
    IF room \in DOMAIN rm
    THEN LET conns == rm[room] \ {connID}
         IN  IF conns = {} THEN MapDel(rm, room) ELSE MapPut(rm, room, conns)
    ELSE rm

\* mutant: looks the user up in the wrong table and never finds a viewer
IsUserInRoomBlind(rm, cm, userID, roomID) ==
    IF roomID \notin DOMAIN rm THEN FALSE
    ELSE \E connID \in rm[roomID] :
            connID \in DOMAIN cm /\ cm[connID].Username = roomID

\* rooms.go:213
IsUserInRoom(rm, cm, userID, roomID) ==
    IF roomID \notin DOMAIN rm THEN FALSE
    ELSE \E connID \in rm[roomID] :
            connID \in DOMAIN cm /\ cm[connID].UserID = userID

(***************************************************************************)
(* Fan-out.  `fail` is the set of handles whose WriteJSON returns an      *)
(* error during this call; the result records the writes attempted (to)   *)
(* and the writes that succeeded (ok).                                     *)
(***************************************************************************)
NoWrites == [to |-> {}, ok |-> {}]

\* mutant: the loop gives up at the first write error
RECURSIVE BroadcastLoopAbort(_, _, _, _)
BroadcastLoopAbort(todo, excludeConnID, fail, acc) ==
    IF todo = {} THEN acc
    ELSE LET id == CHOOSE c \in todo : TRUE
         IN  IF id = excludeConnID
             THEN BroadcastLoopAbort(todo \ {id}, excludeConnID, fail, acc)
             ELSE IF id \in fail
                  THEN [to |-> acc.to \cup {id}, ok |-> acc.ok]
                  ELSE BroadcastLoopAbort(todo \ {id}, excludeConnID, fail,
                          [to |-> acc.to \cup {id}, ok |-> acc.ok \cup {id}])

\* rooms.go:59-71  for id, conn := range connections { ... }
RECURSIVE BroadcastLoop(_, _, _, _)
BroadcastLoop(todo, excludeConnID, fail, acc) ==
    IF todo = {} THEN acc
    ELSE LET id == CHOOSE c \in todo : TRUE
         IN  IF id = excludeConnID
             THEN BroadcastLoop(todo \ {id}, excludeConnID, fail, acc)   \* continue
             ELSE BroadcastLoop(todo \ {id}, excludeConnID, fail,
                     [to |-> acc.to \cup {id},
                      ok |-> IF id \in fail THEN acc.ok           \* LogError, go on
                                            ELSE acc.ok \cup {id}])

\* rooms.go:54
Broadcast(rm, room, excludeConnID, fail) ==
    IF room \in DOMAIN rm
    THEN BroadcastLoop(rm[room], excludeConnID, fail, NoWrites)
    ELSE NoWrites

\* mutant: the loop gives up at the first write error
RECURSIVE SendToUserLoopAbort(_, _, _, _, _)
SendToUserLoopAbort(cm, todo, userID, fail, acc) ==
    IF todo = {} THEN acc
    ELSE LET k == CHOOSE c \in todo : TRUE
         IN  IF cm[k].UserID # userID
             THEN SendToUserLoopAbort(cm, todo \ {k}, userID, fail, acc)
             ELSE IF k \in fail
                  THEN [to |-> acc.to \cup {k}, ok |-> acc.ok]
                  ELSE SendToUserLoopAbort(cm, todo \ {k}, userID, fail,
                          [to |-> acc.to \cup {k}, ok |-> acc.ok \cup {k}])

\* rooms.go:177-183  for _, meta := range m.connMeta { if meta.UserID == userID ... }
RECURSIVE SendToUserLoop(_, _, _, _, _)
SendToUserLoop(cm, todo, userID, fail, acc) ==
    IF todo = {} THEN acc
    ELSE LET k == CHOOSE c \in todo : TRUE
         IN  IF cm[k].UserID = userID
             THEN SendToUserLoop(cm, todo \ {k}, userID, fail,
                     [to |-> acc.to \cup {k},
                      ok |-> IF k \in fail THEN acc.ok ELSE acc.ok \cup {k}])
             ELSE SendToUserLoop(cm, todo \ {k}, userID, fail, acc)

\* rooms.go:173
SendToUser(cm, userID, fail) == SendToUserLoop(cm, DOMAIN cm, userID, fail, NoWrites)

(***************************************************************************)
(* SpecRegistry: the RoomManager API exercised call by call.              *)
(***************************************************************************)
NoCall == [op |-> "none"]

NoMsg == [Event |-> "", Room |-> "", Text |-> "", Voice |-> ""]
NoRow == [id |-> 0, room |-> "", userID |-> 0, username |-> "", text |-> "",
          voice |-> "", has_seen |-> FALSE, created_at |-> <<0, 0>>]
NoLoc == [roomID |-> "", row |-> NoRow, updated |-> 0, err |-> FALSE, items |-> <<>>]

\* a connection goroutine: its program counter, its currentRoom variable, the
\* frame being handled, the handler's locals, and the calls it has made while
\* handling that frame (or, once the loop has ended, during the deferred cleanup)
\* Of its socket: the payloads written to it so far (inbox), how many goroutines are
\* inside WriteJSON on it (writing), whether one of them entered while another
\* was inside (raced), and whether its peer has stopped reading (stalled)
IdleConn == [pc |-> "new", room |-> "", msg |-> NoMsg, loc |-> NoLoc, log |-> <<>>,
             inbox |-> <<>>, writing |-> 0, raced |-> FALSE, stalled |-> FALSE]

InitSystem ==
    /\ conn = [c \in ConnIDs |-> IdleConn]
    /\ tasks = {}
    /\ db = <<>>
    /\ frames = 0

InitRegistry ==
    /\ rooms = EmptyMap
    /\ connMeta = EmptyMap
    /\ registered = {}
    /\ api = NoCall
    /\ InitSystem

systemVars == <<conn, tasks, db, frames>>

\* the two maps as a call finds them, kept with the record of the call
Pre == [rooms |-> rooms, connMeta |-> connMeta]

\* a fresh or repeated registration of session c for its user
ApiRegister(c) ==
    LET r == RegisterConnection(connMeta, c, UserOf[c], NameOf[UserOf[c]])
    IN  /\ connMeta' = r.connMeta
        /\ registered' = registered \cup {c}
        /\ api' = [op |-> "Register", connID |-> c, userID |-> UserOf[c],
                   ret |-> r.ret, before |-> registered]
        /\ UNCHANGED <<rooms, systemVars>>

ApiUnregister(c) ==
    LET r == UnregisterConnection(rooms, connMeta, c)
    IN  /\ rooms' = r.rooms
        /\ connMeta' = r.connMeta
        /\ registered' = registered \ {c}
        /\ api' = [op |-> "Unregister", connID |-> c, userID |-> UserOf[c],
                   ret |-> r.ret, before |-> registered, pre |-> Pre]
        /\ UNCHANGED systemVars

ApiJoin(room, c) ==
    LET r == Join(rooms, connMeta, room, c, UserOf[c], NameOf[UserOf[c]])
    IN  /\ rooms' = r.rooms
        /\ connMeta' = r.connMeta
        /\ registered' = registered \cup {c}
        /\ api' = [op |-> "Join", connID |-> c, room |-> room, pre |-> Pre]
        /\ UNCHANGED systemVars

ApiLeave(room, c) ==
    /\ rooms' = Leave(rooms, room, c)
    /\ api' = [op |-> "Leave", connID |-> c, room |-> room, pre |-> Pre]
    /\ UNCHANGED <<connMeta, registered, systemVars>>

ApiBroadcast(room, exclude, fail) ==
    LET w == Broadcast(rooms, room, exclude, fail)
    IN  /\ api' = [op |-> "Broadcast", room |-> room, exclude |-> exclude,
                   fail |-> fail, to |-> w.to, ok |-> w.ok]
        /\ UNCHANGED <<rooms, connMeta, registered, systemVars>>

ApiSendToUser(u, fail) ==
    LET w == SendToUser(connMeta, u, fail)
    IN  /\ api' = [op |-> "SendToUser", userID |-> u,
                   fail |-> fail, to |-> w.to, ok |-> w.ok]
        /\ UNCHANGED <<rooms, connMeta, registered, systemVars>>

NextRegistry ==
    \/ \E c \in ConnIDs : ApiRegister(c)
    \/ \E c \in ConnIDs : ApiUnregister(c)
    \/ \E r \in RoomIDs, c \in ConnIDs : ApiJoin(r, c)
    \/ \E r \in RoomIDs, c \in ConnIDs : ApiLeave(r, c)
    \/ \E r \in RoomIDs, x \in ConnIDs \cup {""}, f \in SUBSET ConnIDs :
          ApiBroadcast(r, x, f)
    \/ \E u \in UserIDs, f \in SUBSET ConnIDs : ApiSendToUser(u, f)

SpecRegistry == InitRegistry /\ [][NextRegistry]_vars

(***************************************************************************)
(* C1: for every sequence of RegisterConnection / UnregisterConnection    *)
(* calls, IsUserOnline(u) holds iff some session of u is currently        *)
(* registered; RegisterConnection returns true exactly on the 0->N edge   *)
(* and UnregisterConnection exactly on the N->0 edge, never between two   *)
(* non-zero session counts.                                                *)
(***************************************************************************)
SessionsOf(S, u) == {c \in S : UserOf[c] = u}

C1_PresenceEdges ==
    /\ \A u \in UserIDs :
          IsUserOnline(connMeta, u) <=> SessionsOf(registered, u) # {}
    /\ api.op = "Register" =>
          (api.ret <=> SessionsOf(api.before, api.userID) = {})
    /\ api.op = "Unregister" =>
          (api.ret <=> /\ SessionsOf(api.before, api.userID) # {}
                       /\ SessionsOf(registered, api.userID) = {})

\* user 1 had two sessions; dropping the first was silent, dropping the last fired
C1_Witness ==
    /\ api.op = "Unregister" /\ api.ret /\ api.userID = 1
    /\ api.before = {"c2", "c3"} /\ registered = {"c3"}

(***************************************************************************)
(* C2: Broadcast(room, payload, exclude) attempts a write to every member *)
(* of the room at the time of the call except the excluded session, to no *)
(* one else, and a failing write does not stop the others: every member   *)
(* whose write does not fail receives the payload.                         *)
(***************************************************************************)
MembersOf(rm, room) == IF room \in DOMAIN rm THEN rm[room] ELSE {}

C2_BroadcastBestEffort ==
    api.op = "Broadcast" =>
        /\ api.to = MembersOf(rooms, api.room) \ {api.exclude}
        /\ api.ok = api.to \ api.fail

\* three members, one failing handle, nobody excluded: the two healthy ones get it
C2_Witness ==
    /\ api.op = "Broadcast" /\ api.exclude = ""
    /\ MembersOf(rooms, api.room) = ConnIDs
    /\ api.fail = {"c1"} /\ api.ok = {"c2", "c3"}

(***************************************************************************)
(* Spec: the running system.                                               *)
(*                                                                         *)
(* Each accepted connection runs WebSocketHandler in its own goroutine.   *)
(* A step of a goroutine is one RoomManager call (atomic under m.mu) or   *)
(* one persistence call, together with the local statements and the       *)
(* writes to the goroutine's own socket around it.                        *)
(***************************************************************************)
MaxFrames == 2          \* inbound frames and uploads accepted over a run
MaxBusy   == 2          \* goroutines in the middle of an operation at once

\* handles on which a write returns an error.  A failed write is logged and changes
\* nothing else (rooms.go:66-70, db.go:95), and SpecRegistry exercises it; the
\* running system is explored with healthy sockets.
FailableConns == {}

Live(c) == conn[c].pc \notin {"new", "td.close", "closed"}

\* between its Join and its Leave a session is joined to conn[c].room; these are
\* the positions where the Leave has been made and currentRoom not yet updated
LeftPcs == {"join.bleave", "join.join", "leave.bcast", "td.bcast", "td.unreg", "td.close"}

JoinedTo(room) == {c \in ConnIDs : conn[c].room = room /\ conn[c].pc \notin LeftPcs}

\* detached goroutines alive, plus the connections that are accepting, handling a
\* frame or cleaning up
Busy ==
    Cardinality(tasks) +
    Cardinality({c \in ConnIDs : conn[c].pc \notin {"new", "loop", "closed"}})

\* the bound on concurrency: the next input (a connect, a frame, a disconnect, an
\* upload) arrives when fewer than MaxBusy goroutines are in the middle of something
MayStart == Busy < MaxBusy

\* effect records kept in a goroutine's log
ERegister(ret)   == [op |-> "Register", ret |-> ret]
EUnregister(ret) == [op |-> "Unregister", ret |-> ret]
EJoin(room)      == [op |-> "Join", room |-> room]
ELeave(room)     == [op |-> "Leave", room |-> room]
EGo(kind, arg)   == [op |-> "go", kind |-> kind, arg |-> arg]
EBroadcast(room, ev, exclude, w) ==
    [op |-> "Broadcast", room |-> room, ev |-> ev, exclude |-> exclude,
     to |-> w.to, ok |-> w.ok]
ESendJSON(c, ev, failed) ==
    [op |-> "SendJSON", ev |-> ev, to |-> {c}, ok |-> IF failed THEN {} ELSE {c}]

\* one step of connection c: new pc, effects appended to its log
Goto(c, pc, effs) ==
    conn' = [conn EXCEPT ![c].pc = pc, ![c].log = @ \o effs]

Username(c) == NameOf[UserOf[c]]

RoomEvent(event, room, username) ==
    [event |-> event, room |-> room, username |-> username]

(***************************************************************************)
(* WebSocketHandler: accept, welcome, receive loop, deferred cleanup       *)
(***************************************************************************)
StatusTask(c, status) ==
    [kind |-> "status", id |-> 0, origin |-> c, userID |-> UserOf[c],
     username |-> Username(c), status |-> status, room |-> "", text |-> "",
     ts |-> <<0, 0>>, pc |-> "lookup", todo |-> {}, cur |-> 0, seen |-> <<>>]

\* part_003:27-34  RegisterConnection; go notifyUserStatusChange(.., "online")
Accept(c) ==
    /\ conn[c].pc = "new"
    /\ MayStart
    /\ LET r == RegisterConnection(connMeta, c, UserOf[c], Username(c))
       IN  /\ connMeta' = r.connMeta
           /\ tasks' = IF r.ret THEN tasks \cup {StatusTask(c, "online")} ELSE tasks
           /\ Goto(c, "welcome",
                   <<ERegister(r.ret)>> \o
                   (IF r.ret THEN <<EGo("status", "online")>> ELSE <<>>))
    /\ UNCHANGED <<rooms, registered, api, db, frames>>

\* mutant: the welcome is written only once the presence goroutine started by the
\* accept is over
WelcomeAfterNotify(c) ==
    /\ conn[c].pc = "welcome"
    /\ \A t \in tasks : ~(t.kind = "status" /\ t.origin = c)
    /\ conn' = [conn EXCEPT ![c].pc = "loop",
                  ![c].log = <<ESendJSON(c, [event |-> "connected"], FALSE)>>]
    /\ UNCHANGED <<rooms, connMeta, registered, api, tasks, db, frames>>

\* part_003:59-62  utils.SendJSON(c, {"event": "connected", ...}); result ignored
Welcome(c) ==
    /\ conn[c].pc = "welcome"
    /\ \E failed \in BOOLEAN :
          /\ failed => c \in FailableConns
          /\ conn' = [conn EXCEPT ![c].pc = "loop",
                        ![c].log = <<ESendJSON(c, [event |-> "connected"], failed)>>]
    /\ UNCHANGED <<rooms, connMeta, registered, api, tasks, db, frames>>

\* mutant: the deferred func leaves and announces whether or not a room is current
EnterCleanupAlways(c) ==
    /\ rooms' = Leave(rooms, conn[c].room, c)
    /\ conn' = [conn EXCEPT ![c].pc = "td.bcast", ![c].msg = NoMsg,
                  ![c].loc = NoLoc, ![c].log = <<ELeave(conn[c].room)>>]

\* part_003:36-45  the deferred func starts: Leave the current room, if any
EnterCleanup(c) ==
    IF conn[c].room # ""
    THEN /\ rooms' = Leave(rooms, conn[c].room, c)
         /\ conn' = [conn EXCEPT ![c].pc = "td.bcast", ![c].msg = NoMsg,
                       ![c].loc = NoLoc, ![c].log = <<ELeave(conn[c].room)>>]
    ELSE /\ rooms' = rooms
         /\ conn' = [conn EXCEPT ![c].pc = "td.unreg", ![c].msg = NoMsg,
                       ![c].loc = NoLoc, ![c].log = <<>>]

\* part_003:65-71  ReadMessage returns an error (transport error or close frame)
ReadError(c) ==
    /\ conn[c].pc = "loop"
    /\ MayStart
    /\ EnterCleanup(c)
    /\ UNCHANGED <<connMeta, registered, api, tasks, db, frames>>

\* the steps of a handler that write to a socket
WritePcs == {"join.bleave", "join.join", "join.bcast", "join.history",
             "leave.bcast", "chat.bcast", "seen.bcast", "list.annot"}

\* part_003:36  a write made while handling a frame panics (WriteJSON does, on a
\* concurrent write); the handler is abandoned and the deferred func runs
Panic(c) ==
    /\ conn[c].pc \in WritePcs
    /\ EnterCleanup(c)
    /\ UNCHANGED <<connMeta, registered, api, tasks, db, frames>>

\* part_003:40-44  Manager.Broadcast(currentRoom, {"event": "leave", ...}, connID)
TdBroadcast(c) ==
    /\ conn[c].pc = "td.bcast"
    /\ \E fail \in SUBSET (MembersOf(rooms, conn[c].room) \cap FailableConns) :
          Goto(c, "td.unreg",
               <<EBroadcast(conn[c].room,
                            RoomEvent("leave", conn[c].room, Username(c)), c,
                            Broadcast(rooms, conn[c].room, c, fail))>>)
    /\ UNCHANGED <<rooms, connMeta, registered, api, tasks, db, frames>>

\* part_003:47-53  UnregisterConnection; go notifyUserStatusChange(.., "offline")
TdUnregister(c) ==
    /\ conn[c].pc = "td.unreg"
    /\ LET r == UnregisterConnection(rooms, connMeta, c)
       IN  /\ rooms' = r.rooms
           /\ connMeta' = r.connMeta
           /\ tasks' = IF r.ret THEN tasks \cup {StatusTask(c, "offline")} ELSE tasks
           /\ Goto(c, "td.close",
                   <<EUnregister(r.ret)>> \o
                   (IF r.ret THEN <<EGo("status", "offline")>> ELSE <<>>))
    /\ UNCHANGED <<registered, api, db, frames>>

\* part_003:55  c.Close(): the goroutine is over
TdClose(c) ==
    /\ conn[c].pc = "td.close"
    /\ conn' = [conn EXCEPT ![c] = [IdleConn EXCEPT !.pc = "closed"]]
    /\ UNCHANGED <<rooms, connMeta, registered, api, tasks, db, frames>>

(***************************************************************************)
(* HandleMessage: a frame is read and dispatched; the handler's first     *)
(* call is made in the same step.                                          *)
(***************************************************************************)
\* message.go:41-55  parsed frame, Username overridden by the authenticated one
Frame(event, room, text, voice) ==
    [Event |-> event, Room |-> room, Text |-> text, Voice |-> voice]

CanRead(c) == conn[c].pc = "loop" /\ frames < MaxFrames /\ MayStart

\* the handler returned: back to ReadMessage
Return(c) ==
    /\ conn[c].pc = "ret"
    /\ conn' = [conn EXCEPT ![c].pc = "loop", ![c].msg = NoMsg,
                  ![c].loc = NoLoc, ![c].log = <<>>]
    /\ UNCHANGED <<rooms, connMeta, registered, api, tasks, db, frames>>

\* message.go:56-66  the events the switch dispatches
Handled == {"join", "leave", "chat", "seen", "list"}

\* frames HandleMessage drops: a binary frame (message.go:42), text that is not
\* JSON (message.go:47), an event the switch does not know (message.go:67)
OtherFrames == {"binary", "malformed", "typing"}

\* mutant: a dropped frame is answered with an error event
RecvOtherAnswered(c, f) ==
    /\ CanRead(c)
    /\ conn' = [conn EXCEPT ![c].pc = "ret", ![c].msg = Frame(f, "", "", ""),
                  ![c].log = <<ESendJSON(c, [event |-> "error"], FALSE)>>]
    /\ frames' = frames + 1
    /\ UNCHANGED <<rooms, connMeta, registered, api, tasks, db>>

\* message.go:42-50, 67-68  HandleMessage returns without calling a handler; msg
\* notes which frame it was
RecvOther(c, f) ==
    /\ CanRead(c)
    /\ f \notin Handled
    /\ conn' = [conn EXCEPT ![c].pc = "ret", ![c].msg = Frame(f, "", "", ""),
                  ![c].log = <<>>]
    /\ frames' = frames + 1
    /\ UNCHANGED <<rooms, connMeta, registered, api, tasks, db>>

(***************************************************************************)
(* handleJoin  (message.go:128-202)                                        *)
(***************************************************************************)
\* message.go:129-135  empty room: return; else Leave the previous room, if any
RecvJoin(c, room) ==
    /\ CanRead(c)
    /\ LET m == Frame("join", room, "", "")
       IN  IF room = ""
           THEN /\ conn' = [conn EXCEPT ![c].pc = "ret", ![c].msg = m, ![c].log = <<>>]
                /\ rooms' = rooms
           ELSE IF conn[c].room # ""
           THEN /\ rooms' = Leave(rooms, conn[c].room, c)
                /\ conn' = [conn EXCEPT ![c].pc = "join.bleave", ![c].msg = m,
                              ![c].log = <<ELeave(conn[c].room)>>]
           ELSE /\ conn' = [conn EXCEPT ![c].pc = "join.join", ![c].msg = m,
                              ![c].log = <<>>]
                /\ rooms' = rooms
    /\ frames' = frames + 1
    /\ UNCHANGED <<connMeta, registered, api, tasks, db>>

\* message.go:137-142  Manager.Broadcast(*currentRoom, leave, "")
JoinBroadcastLeave(c) ==
    /\ conn[c].pc = "join.bleave"
    /\ \E fail \in SUBSET (MembersOf(rooms, conn[c].room) \cap FailableConns) :
          Goto(c, "join.join",
               <<EBroadcast(conn[c].room,
                            RoomEvent("leave", conn[c].room, Username(c)), "",
                            Broadcast(rooms, conn[c].room, "", fail))>>)
    /\ UNCHANGED <<rooms, connMeta, registered, api, tasks, db, frames>>

\* message.go:145-154  *currentRoom = msg.Room; Manager.Join(...); SendJSON(c, joined)
JoinJoin(c) ==
    /\ conn[c].pc = "join.join"
    /\ \E failed \in BOOLEAN :
          /\ failed => c \in FailableConns
          /\ LET room == conn[c].msg.Room
                 r    == Join(rooms, connMeta, room, c, UserOf[c], Username(c))
             IN  /\ rooms' = r.rooms
                 /\ connMeta' = r.connMeta
                 /\ conn' = [conn EXCEPT ![c].pc = "join.bcast", ![c].room = room,
                               ![c].log = @ \o
                                 <<EJoin(room),
                                   ESendJSON(c, RoomEvent("joined", room, Username(c)),
                                             failed)>>]
    /\ UNCHANGED <<registered, api, tasks, db, frames>>

\* mutant: the join is announced to the whole room, the joiner included
JoinBroadcastAll(c) ==
    /\ conn[c].pc = "join.bcast"
    /\ Goto(c, "join.history",
            <<EBroadcast(conn[c].room, RoomEvent("join", conn[c].room, Username(c)), "",
                         Broadcast(rooms, conn[c].room, "", {}))>>)
    /\ UNCHANGED <<rooms, connMeta, registered, api, tasks, db, frames>>

\* message.go:157-162  Manager.Broadcast(*currentRoom, join, connID)
JoinBroadcast(c) ==
    /\ conn[c].pc = "join.bcast"
    /\ \E fail \in SUBSET (MembersOf(rooms, conn[c].room) \cap FailableConns) :
          Goto(c, "join.history",
               <<EBroadcast(conn[c].room,
                            RoomEvent("join", conn[c].room, Username(c)), c,
                            Broadcast(rooms, conn[c].room, c, fail))>>)
    /\ UNCHANGED <<rooms, connMeta, registered, api, tasks, db, frames>>

(***************************************************************************)
(* handleLeave  (message.go:204-217)                                       *)
(***************************************************************************)
\* mutant: the handler leaves and announces whether or not a room is current
RecvLeaveAlways(c) ==
    /\ CanRead(c)
    /\ rooms' = Leave(rooms, conn[c].room, c)
    /\ conn' = [conn EXCEPT ![c].pc = "leave.bcast",
                  ![c].msg = Frame("leave", "", "", ""),
                  ![c].log = <<ELeave(conn[c].room)>>]
    /\ frames' = frames + 1
    /\ UNCHANGED <<connMeta, registered, api, tasks, db>>

\* message.go:205-206
RecvLeave(c) ==
    /\ CanRead(c)
    /\ LET m == Frame("leave", "", "", "")
       IN  IF conn[c].room # ""
           THEN /\ rooms' = Leave(rooms, conn[c].room, c)
                /\ conn' = [conn EXCEPT ![c].pc = "leave.bcast", ![c].msg = m,
                              ![c].log = <<ELeave(conn[c].room)>>]
           ELSE /\ rooms' = rooms
                /\ conn' = [conn EXCEPT ![c].pc = "ret", ![c].msg = m, ![c].log = <<>>]
    /\ frames' = frames + 1
    /\ UNCHANGED <<connMeta, registered, api, tasks, db>>

\* mutant: the handler announces the leave and keeps its current room
LeaveBroadcastKeepRoom(c) ==
    /\ conn[c].pc = "leave.bcast"
    /\ conn' = [conn EXCEPT ![c].pc = "ret",
                  ![c].log = @ \o
                    <<EBroadcast(conn[c].room,
                                 RoomEvent("leave", conn[c].room, Username(c)), c,
                                 Broadcast(rooms, conn[c].room, c, {}))>>]
    /\ UNCHANGED <<rooms, connMeta, registered, api, tasks, db, frames>>

\* message.go:208-215  Manager.Broadcast(*currentRoom, leave, connID); *currentRoom = ""
LeaveBroadcast(c) ==
    /\ conn[c].pc = "leave.bcast"
    /\ \E fail \in SUBSET (MembersOf(rooms, conn[c].room) \cap FailableConns) :
          conn' = [conn EXCEPT ![c].pc = "ret", ![c].room = "",
                     ![c].log = @ \o
                       <<EBroadcast(conn[c].room,
                                    RoomEvent("leave", conn[c].room, Username(c)), c,
                                    Broadcast(rooms, conn[c].room, c, fail))>>]
    /\ UNCHANGED <<rooms, connMeta, registered, api, tasks, db, frames>>

(***************************************************************************)
(* Time.  Timestamps are int64 milliseconds; they are kept as a pair      *)
(* <<millions, rest>> so that 10^12 and the clock stay exact.             *)
(***************************************************************************)
TsBase == 1000 * 1000
TsZero == <<0, 0>>
TsLess(a, b) == a[1] < b[1] \/ (a[1] = b[1] /\ a[2] < b[2])
TsTimes1000(a) == <<a[1] * 1000 + (a[2] * 1000) \div TsBase, (a[2] * 1000) % TsBase>>

\* message.go:89  1_000_000_000_000
SecondsLimit == <<1000 * 1000, 0>>

\* time.Now().UnixMilli() = 1762200000000 (November 2025): the run is short enough
\* for every reading of the clock to return the same millisecond
Now == <<1762200, 0>>

\* timestamps a client may put in a seen frame: 1732789012 s, 1732789012345 ms
ClientTimestamps == {<<1732, 789012>>, <<1732789, 12345>>}

\* message.go:84-91
NormalizeSeenTs(ts) == IF TsLess(ts, SecondsLimit) THEN TsTimes1000(ts) ELSE ts

(***************************************************************************)
(* Persistence (ChatService) over the messages and room_participants      *)
(* tables.                                                                 *)
(***************************************************************************)
\* rows of room_participants (migrations/002_create_rooms.sql)
Participants == [r \in RoomIDs |-> IF r = "r1" THEN {1, 2} ELSE {1, 3}]

\* chat_service.go:64  INSERT ... has_seen = false RETURNING id, created_at, has_seen
SaveMessage(rows, room, userID, username, text, voice, createdAt) ==
    Append(rows, [id |-> Len(rows) + 1, room |-> room, userID |-> userID,
                  username |-> username, text |-> text, voice |-> voice,
                  has_seen |-> FALSE, created_at |-> createdAt])

\* chat_service.go:126
GetRoomParticipants(roomID) == IF roomID \in RoomIDs THEN Participants[roomID] ELSE {}

\* mutant: the join does not exclude the user's own participant rows
GetUsersWithSharedRoomsSelf(userID) ==
    {u \in UserIDs : \E r \in RoomIDs : {u, userID} \subseteq Participants[r]}

\* chat_service.go:157
GetUsersWithSharedRooms(userID) ==
    {u \in UserIDs : u # userID /\ \E r \in RoomIDs : {u, userID} \subseteq Participants[r]}

\* chat_service.go:147  UPDATE messages SET has_seen = TRUE WHERE room = $1 AND
\*                      user_id != $2 AND created_at <= $3 AND has_seen = FALSE
SeenMatches(row, room, viewerID, seenBefore) ==
    /\ row.room = room /\ row.userID # viewerID
    /\ ~TsLess(seenBefore, row.created_at) /\ ~row.has_seen

MarkMessagesSeen(rows, room, viewerID, seenBefore) ==
    [rows    |-> [i \in DOMAIN rows |->
                    IF SeenMatches(rows[i], room, viewerID, seenBefore)
                    THEN [rows[i] EXCEPT !.has_seen = TRUE] ELSE rows[i]],
     updated |-> Cardinality({i \in DOMAIN rows :
                                SeenMatches(rows[i], room, viewerID, seenBefore)})]

\* message.go:165  the history window
HistoryLimit == 50

\* chat_service.go:93  newest `limit` rows of the room, oldest first
GetRecentMessages(rows, room, limit) ==
    LET mine == SelectSeq(rows, LAMBDA r : r.room = room)
    IN  IF Len(mine) <= limit THEN mine
        ELSE SubSeq(mine, Len(mine) - limit + 1, Len(mine))

\* chat_service.go:182  the caller's direct rooms with the other participant
GetUserRooms(userID) ==
    LET mine == {r \in RoomIDs : userID \in Participants[r]}
        Item(r) == [room_id |-> r,
                    other_user_id |-> CHOOSE u \in Participants[r] : u # userID,
                    other_user_status |-> ""]
    IN  IF mine = {} THEN <<>>
        ELSE IF "r1" \in mine /\ "r2" \in mine THEN <<Item("r1"), Item("r2")>>
        ELSE <<Item(CHOOSE r \in mine : TRUE)>>

ESaveMessage(row, err) == [op |-> "SaveMessage", row |-> row, err |-> err]
EMarkSeen(room, viewerID, before, clientTs, err, updated) ==
    [op |-> "MarkMessagesSeen", room |-> room, viewerID |-> viewerID,
     before |-> before, clientTs |-> clientTs, err |-> err, updated |-> updated]

(***************************************************************************)
(* handleJoin, last step: the history snapshot  (message.go:165-201)      *)
(***************************************************************************)
HistoryItem(row, userID) ==
    [id |-> row.id, text |-> row.text, voice |-> row.voice,
     username |-> row.username, is_your_message |-> (row.userID = userID),
     has_seen |-> row.has_seen]

JoinHistory(c) ==
    /\ conn[c].pc = "join.history"
    /\ \E err \in BOOLEAN, failed \in BOOLEAN :
          /\ failed => (c \in FailableConns /\ ~err)
          /\ IF err THEN Goto(c, "ret", <<>>)
             ELSE LET msgs == GetRecentMessages(db, conn[c].room, HistoryLimit)
                  IN  Goto(c, "ret",
                        <<ESendJSON(c, [event |-> "history", room |-> conn[c].room,
                                        history |-> [i \in DOMAIN msgs |->
                                                       HistoryItem(msgs[i], UserOf[c])]],
                                    failed)>>)
    /\ UNCHANGED <<rooms, connMeta, registered, api, tasks, db, frames>>

(***************************************************************************)
(* handleChat  (message.go:219-293)                                        *)
(***************************************************************************)
\* <<text, voice>> of a chat frame: neither, text only, voice reference only
ChatBodies == {<<"", "">>, <<"hi", "">>, <<"", "v.webm">>}

HintTask(kind, id, room, senderID, senderUsername, text, ts) ==
    [kind |-> kind, id |-> id, origin |-> "", userID |-> senderID,
     username |-> senderUsername, status |-> "", room |-> room, text |-> text,
     ts |-> ts, pc |-> "lookup", todo |-> {}, cur |-> 0, seen |-> <<>>]

\* mutant: the event reports the message as already seen
ChatEventSeen(row) ==
    [event |-> "chat", id |-> row.id, room |-> row.room, text |-> row.text,
     voice |-> row.voice, username |-> row.username,
     timestamp |-> row.created_at, has_seen |-> TRUE]

\* message.go:278-289  the chat event built from the frame and the saved row
ChatEvent(row) ==
    [event |-> "chat", id |-> row.id, room |-> row.room, text |-> row.text,
     voice |-> row.voice, username |-> row.username,
     timestamp |-> row.created_at, has_seen |-> row.has_seen]

ValidationError == [event |-> "error", error |-> "message must have either text or voice"]

\* mutant: the validation lets everything through
NoContentIgnored(text, voice) == FALSE

\* message.go:236  content == nil && voice == nil
NoContent(text, voice) == text = "" /\ voice = ""

\* mutant: the handler answers every chat frame with the validation error
RecvChatAnswered(c, text, voice) ==
    /\ CanRead(c)
    /\ conn' = [conn EXCEPT ![c].pc = "ret", ![c].msg = Frame("chat", "", text, voice),
                  ![c].log = <<ESendJSON(c, ValidationError, FALSE)>>]
    /\ frames' = frames + 1
    /\ UNCHANGED <<rooms, connMeta, registered, api, tasks, db>>

\* mutant: a failed save is reported to the sender
RecvChatSaveReported(c, text, voice) ==
    /\ CanRead(c)
    /\ conn[c].room # "" /\ ~NoContent(text, voice)
    /\ LET rows == SaveMessage(db, conn[c].room, UserOf[c], Username(c), text, voice, Now)
       IN  conn' = [conn EXCEPT ![c].pc = "ret", ![c].msg = Frame("chat", "", text, voice),
                      ![c].log = <<ESaveMessage(rows[Len(rows)], TRUE),
                                   ESendJSON(c, [event |-> "error"], FALSE)>>]
    /\ frames' = frames + 1
    /\ UNCHANGED <<rooms, connMeta, registered, api, tasks, db>>

\* message.go:220-269  not joined: return; nothing to send: error reply; else persist
RecvChat(c, text, voice) ==
    /\ CanRead(c)
    /\ LET m == Frame("chat", "", text, voice)
       IN  IF conn[c].room = ""
           THEN /\ conn' = [conn EXCEPT ![c].pc = "ret", ![c].msg = m, ![c].log = <<>>]
                /\ db' = db
           ELSE IF NoContent(text, voice)
           THEN /\ \E failed \in BOOLEAN :
                     /\ failed => c \in FailableConns
                     /\ conn' = [conn EXCEPT ![c].pc = "ret", ![c].msg = m,
                                   ![c].log = <<ESendJSON(c, ValidationError, failed)>>]
                /\ db' = db
           ELSE \E err \in BOOLEAN :
                   LET rows == SaveMessage(db, conn[c].room, UserOf[c], Username(c),
                                           text, voice, Now)
                       row  == rows[Len(rows)]
                   IN  IF err
                       THEN /\ db' = db
                            /\ conn' = [conn EXCEPT ![c].pc = "ret", ![c].msg = m,
                                          ![c].log = <<ESaveMessage(row, TRUE)>>]
                       ELSE /\ db' = rows
                            /\ conn' = [conn EXCEPT ![c].pc = "chat.bcast", ![c].msg = m,
                                          ![c].loc = [NoLoc EXCEPT !.row = row],
                                          ![c].log = <<ESaveMessage(row, FALSE)>>]
    /\ frames' = frames + 1
    /\ UNCHANGED <<rooms, connMeta, registered, api, tasks>>

\* message.go:277-292  Manager.Broadcast(currentRoom, chat, ""); go notifyNewMessage(...)
ChatBroadcast(c) ==
    /\ conn[c].pc = "chat.bcast"
    /\ LET row == conn[c].loc.row
       IN  /\ \E fail \in SUBSET (MembersOf(rooms, conn[c].room) \cap FailableConns) :
                Goto(c, "ret",
                     <<EBroadcast(conn[c].room, ChatEvent(row), "",
                                  Broadcast(rooms, conn[c].room, "", fail)),
                       EGo("hint", "")>>)
           /\ tasks' = tasks \cup {HintTask("hint", row.id, conn[c].room, UserOf[c],
                                            Username(c), conn[c].msg.Text, row.created_at)}
    /\ UNCHANGED <<rooms, connMeta, registered, api, db, frames>>

(***************************************************************************)
(* handleSeen  (message.go:72-126)                                         *)
(***************************************************************************)
\* message.go:54  wsMsg.Timestamp = time.Now().UnixMilli(), for every event
ServerStamp(clientTs) == Now

\* the room field of a seen frame: absent, or a room named explicitly
SeenRooms == {"", "r2"}

\* message.go:100-106  the reply when MarkMessagesSeen fails
SeenFailed(roomID) ==
    [event |-> "seen_failed", room |-> roomID, error |-> "error", updated |-> 0]

\* mutant: a failed MarkMessagesSeen is reported and then broadcast all the same
RecvSeenFailureBroadcast(c, clientTs, room) ==
    /\ CanRead(c)
    /\ LET roomID == IF conn[c].room # "" THEN conn[c].room ELSE room
           before == NormalizeSeenTs(ServerStamp(clientTs))
       IN  /\ roomID # ""
           /\ conn' = [conn EXCEPT ![c].pc = "seen.bcast",
                         ![c].msg = Frame("seen", room, "", ""),
                         ![c].loc = [NoLoc EXCEPT !.roomID = roomID],
                         ![c].log = <<EMarkSeen(roomID, UserOf[c], before, clientTs, TRUE, 0),
                                      ESendJSON(c, SeenFailed(roomID), FALSE)>>]
    /\ frames' = frames + 1
    /\ UNCHANGED <<rooms, connMeta, registered, api, tasks, db>>

\* mutant: the room named in the frame wins over the current room
RecvSeenEventRoom(c, clientTs, room) ==
    /\ CanRead(c)
    /\ LET roomID == IF room # "" THEN room ELSE conn[c].room
           before == NormalizeSeenTs(ServerStamp(clientTs))
           r      == MarkMessagesSeen(db, roomID, UserOf[c], before)
       IN  /\ roomID # ""
           /\ db' = r.rows
           /\ conn' = [conn EXCEPT ![c].pc = "seen.bcast",
                         ![c].msg = Frame("seen", room, "", ""),
                         ![c].loc = [NoLoc EXCEPT !.roomID = roomID, !.updated = r.updated],
                         ![c].log = <<EMarkSeen(roomID, UserOf[c], before, clientTs, FALSE,
                                                r.updated),
                                      ESendJSON(c, RoomEvent("seen_successful", roomID,
                                                             Username(c)), FALSE)>>]
    /\ frames' = frames + 1
    /\ UNCHANGED <<rooms, connMeta, registered, api, tasks>>

\* message.go:74-115  resolve the room, normalise the timestamp, MarkMessagesSeen,
\*                    reply seen_failed or seen_successful
RecvSeen(c, clientTs, room) ==
    /\ CanRead(c)
    /\ LET m      == Frame("seen", room, "", "")
           stamp  == ServerStamp(clientTs)
           roomID == IF conn[c].room # "" THEN conn[c].room ELSE room
           before == NormalizeSeenTs(stamp)
           r      == MarkMessagesSeen(db, roomID, UserOf[c], before)
       IN  IF (conn[c].room = "" /\ room = "") \/ stamp = TsZero
           THEN /\ conn' = [conn EXCEPT ![c].pc = "ret", ![c].msg = m, ![c].log = <<>>]
                /\ db' = db
           ELSE \E err \in BOOLEAN, failed \in BOOLEAN :
                   /\ failed => c \in FailableConns
                   /\ IF err
                      THEN /\ db' = db
                           /\ conn' = [conn EXCEPT ![c].pc = "ret", ![c].msg = m,
                                         ![c].log = <<EMarkSeen(roomID, UserOf[c], before,
                                                                clientTs, TRUE, 0),
                                                      ESendJSON(c, SeenFailed(roomID), failed)>>]
                      ELSE /\ db' = r.rows
                           /\ conn' = [conn EXCEPT ![c].pc = "seen.bcast", ![c].msg = m,
                                         ![c].loc = [NoLoc EXCEPT !.roomID = roomID,
                                                                  !.updated = r.updated],
                                         ![c].log = <<EMarkSeen(roomID, UserOf[c], before,
                                                                clientTs, FALSE, r.updated),
                                                      ESendJSON(c, RoomEvent("seen_successful",
                                                                  roomID, Username(c)),
                                                                failed)>>]
    /\ frames' = frames + 1
    /\ UNCHANGED <<rooms, connMeta, registered, api, tasks>>

\* mutant: the sender's own session is left out of the messages_seen broadcast
SeenBroadcastOthers(c) ==
    /\ conn[c].pc = "seen.bcast"
    /\ LET roomID == conn[c].loc.roomID
       IN  Goto(c, "ret",
                <<EBroadcast(roomID,
                             [event |-> "messages_seen", room |-> roomID,
                              seen_by |-> UserOf[c], username |-> Username(c),
                              count |-> conn[c].loc.updated], c,
                             Broadcast(rooms, roomID, c, {}))>>)
    /\ UNCHANGED <<rooms, connMeta, registered, api, tasks, db, frames>>

\* message.go:118-125  Manager.Broadcast(roomID, messages_seen, "")
SeenBroadcast(c) ==
    /\ conn[c].pc = "seen.bcast"
    /\ LET roomID == conn[c].loc.roomID
       IN  \E fail \in SUBSET (MembersOf(rooms, roomID) \cap FailableConns) :
              Goto(c, "ret",
                   <<EBroadcast(roomID,
                                [event |-> "messages_seen", room |-> roomID,
                                 seen_by |-> UserOf[c], username |-> Username(c),
                                 count |-> conn[c].loc.updated], "",
                                Broadcast(rooms, roomID, "", fail))>>)
    /\ UNCHANGED <<rooms, connMeta, registered, api, tasks, db, frames>>

(***************************************************************************)
(* handleList  (message.go:340-369)                                        *)
(***************************************************************************)
ListEvent(items) == [event |-> "list", rooms |-> items]

\* message.go:341-350  GetUserRooms; on error the empty list is sent
RecvList(c) ==
    /\ CanRead(c)
    /\ \E err \in BOOLEAN, failed \in BOOLEAN :
          /\ failed => (c \in FailableConns /\ err)
          /\ conn' = [conn EXCEPT ![c].pc = IF err THEN "ret" ELSE "list.annot",
                        ![c].msg = Frame("list", "", "", ""),
                        ![c].loc = [NoLoc EXCEPT !.err = err,
                                      !.items = IF err THEN <<>> ELSE GetUserRooms(UserOf[c])],
                        ![c].log = IF err THEN <<ESendJSON(c, ListEvent(<<>>), failed)>>
                                          ELSE <<>>]
    /\ frames' = frames + 1
    /\ UNCHANGED <<rooms, connMeta, registered, api, tasks, db>>

\* mutant: every other participant is shown as online, nobody is asked
ListAnnotateOnline(c) ==
    /\ conn[c].pc = "list.annot"
    /\ LET items == conn[c].loc.items
           done  == [i \in DOMAIN items |-> [items[i] EXCEPT !.other_user_status = "online"]]
       IN  conn' = [conn EXCEPT ![c].pc = "ret", ![c].loc.items = done,
                      ![c].log = @ \o <<ESendJSON(c, ListEvent(done), FALSE)>>]
    /\ UNCHANGED <<rooms, connMeta, registered, api, tasks, db, frames>>

\* message.go:353-368  one pass of the loop: Manager.IsUserOnline(rooms[i].OtherUserID);
\*                     after the last pass the list is sent
ListAnnotate(c) ==
    /\ conn[c].pc = "list.annot"
    /\ \E failed \in BOOLEAN :
          /\ failed => c \in FailableConns
          /\ LET items == conn[c].loc.items
                 todo  == {i \in DOMAIN items : items[i].other_user_status = ""}
                 i     == CHOOSE k \in todo : \A j \in todo : k <= j
                 st    == IF IsUserOnline(connMeta, items[i].other_user_id)
                          THEN "online" ELSE "offline"
                 done  == [items EXCEPT ![i].other_user_status = st]
             IN  IF todo = {}
                 THEN Goto(c, "ret", <<ESendJSON(c, ListEvent(items), failed)>>)
                 ELSE IF todo = {i}
                 THEN conn' = [conn EXCEPT ![c].pc = "ret", ![c].loc.items = done,
                                 ![c].log = @ \o <<ESendJSON(c, ListEvent(done), failed)>>]
                 ELSE conn' = [conn EXCEPT ![c].loc.items = done]
    /\ UNCHANGED <<rooms, connMeta, registered, api, tasks, db, frames>>

(***************************************************************************)
(* Detached goroutines: notifyNewMessage, notifyNewVoiceMessage,          *)
(* notifyUserStatusChange, and the HTTP voice upload.                      *)
(***************************************************************************)
UpdateTask(t, t2) == tasks' = (tasks \ {t}) \cup {t2}

\* what was true of participant p when the goroutine looked
NoEvent == [event |-> ""]

Seen(p, why, wasOnline, wasInRoom, w, sessions) ==
    [p |-> p, why |-> why, wasOnline |-> wasOnline, wasInRoom |-> wasInRoom,
     to |-> w.to, ok |-> w.ok, sessions |-> sessions, ev |-> NoEvent]

LiveSessionsOf(u) == {c \in ConnIDs : Live(c) /\ UserOf[c] = u}
SessionsIn(room, u) == {c \in JoinedTo(room) : UserOf[c] = u}

\* message.go:307-315  the hint built for a WebSocket chat
TextNotification(t) ==
    [event |-> "new_message", room |-> t.room, sender_id |-> t.userID,
     sender_username |-> t.username, text |-> t.text, timestamp |-> t.ts]

\* voice.go:269-276  the hint built for a voice upload
VoiceNotification(t) ==
    [event |-> "new_message", room |-> t.room, sender_id |-> t.userID,
     sender_username |-> t.username, type |-> "voice", timestamp |-> t.ts]

\* part_003:91-97
StatusMsg(t) ==
    [event |-> "user_status", user_id |-> t.userID, username |-> t.username,
     status |-> t.status, timestamp |-> Now]

Notification(t) ==
    IF t.kind = "hint" THEN TextNotification(t)
    ELSE IF t.kind = "vhint" THEN VoiceNotification(t)
    ELSE StatusMsg(t)

\* message.go:301-305, voice.go:263-267, part_003:84-88  the persistence lookup
TaskLookup(t) ==
    /\ t.pc = "lookup"
    /\ \E err \in BOOLEAN :
          IF err THEN tasks' = tasks \ {t}
          ELSE UpdateTask(t, [t EXCEPT !.pc = "loop",
                                !.todo = IF t.kind = "status"
                                         THEN GetUsersWithSharedRooms(t.userID)
                                         ELSE GetRoomParticipants(t.room)])
    /\ UNCHANGED <<rooms, connMeta, registered, api, conn, db, frames>>

\* message.go:320-328  next participant: skip the sender, then Manager.IsUserOnline
HintCheckOnline(t, p) ==
    /\ t.kind \in {"hint", "vhint"} /\ t.pc = "loop" /\ p \in t.todo
    /\ LET rest == [t EXCEPT !.todo = @ \ {p}]
           live == LiveSessionsOf(p) # {}
       IN  IF p = t.userID THEN UpdateTask(t, rest)
           ELSE IF ~IsUserOnline(connMeta, p)
           THEN UpdateTask(t, [rest EXCEPT !.seen =
                                 Append(@, Seen(p, "offline", live, FALSE, NoWrites, {}))])
           ELSE UpdateTask(t, [rest EXCEPT !.pc = "inroom", !.cur = p, !.seen =
                                 Append(@, Seen(p, "online", live, FALSE, NoWrites, {}))])
    /\ UNCHANGED <<rooms, connMeta, registered, api, conn, db, frames>>

\* message.go:331-333  Manager.IsUserInRoom(participantID, roomID)
HintCheckInRoom(t) ==
    /\ t.kind \in {"hint", "vhint"} /\ t.pc = "inroom"
    /\ LET n      == Len(t.seen)
           inRoom == SessionsIn(t.room, t.cur) # {}
       IN  IF IsUserInRoom(rooms, connMeta, t.cur, t.room)
           THEN UpdateTask(t, [t EXCEPT !.pc = "loop", !.cur = 0,
                                 !.seen[n].why = "inroom", !.seen[n].wasInRoom = inRoom])
           ELSE UpdateTask(t, [t EXCEPT !.pc = "send", !.seen[n].wasInRoom = inRoom])
    /\ UNCHANGED <<rooms, connMeta, registered, api, conn, db, frames>>

\* message.go:336  Manager.SendToUser(participantID, notification)
HintSend(t) ==
    /\ t.kind \in {"hint", "vhint"} /\ t.pc = "send"
    /\ \E fail \in SUBSET (LiveSessionsOf(t.cur) \cap FailableConns) :
          LET n == Len(t.seen)
              w == SendToUser(connMeta, t.cur, fail)
          IN  UpdateTask(t, [t EXCEPT !.pc = "loop", !.cur = 0,
                               !.seen[n].why = "sent", !.seen[n].to = w.to,
                               !.seen[n].ok = w.ok, !.seen[n].ev = Notification(t),
                               !.seen[n].sessions = LiveSessionsOf(t.cur)])
    /\ UNCHANGED <<rooms, connMeta, registered, api, conn, db, frames>>

\* part_003:99-101  Manager.SendToUser(uid, statusMsg) for the next shared user
StatusSend(t, p) ==
    /\ t.kind = "status" /\ t.pc = "loop" /\ p \in t.todo
    /\ \E fail \in SUBSET (LiveSessionsOf(p) \cap FailableConns) :
          LET w == SendToUser(connMeta, p, fail)
          IN  UpdateTask(t, [t EXCEPT !.todo = @ \ {p}, !.seen =
                               Append(@, Seen(p, "sent", LiveSessionsOf(p) # {}, FALSE,
                                              w, LiveSessionsOf(p)))])
    /\ UNCHANGED <<rooms, connMeta, registered, api, conn, db, frames>>

\* the goroutine returns
TaskExit(t) ==
    /\ t.pc = "done" \/ (t.pc = "loop" /\ t.todo = {})
    /\ tasks' = tasks \ {t}
    /\ UNCHANGED <<rooms, connMeta, registered, api, conn, db, frames>>

\* voice.go:100-223  an authenticated upload to any room: the row is saved
UploadVoice(u, room) ==
    /\ MayStart
    /\ frames < MaxFrames
    /\ \E err \in BOOLEAN :
          LET rows == SaveMessage(db, room, u, NameOf[u], "", "v.webm", Now)
              row  == rows[Len(rows)]
          IN  IF err THEN UNCHANGED <<db, tasks>>
              ELSE /\ db' = rows
                   /\ tasks' = tasks \cup
                        {[HintTask("upload", row.id, room, u, NameOf[u], "", row.created_at)
                            EXCEPT !.pc = "bcast"]}
    /\ frames' = frames + 1
    /\ UNCHANGED <<rooms, connMeta, registered, api, conn>>

\* voice.go:229-244  Manager.Broadcast(room, chat, ""); go notifyNewVoiceMessage(...)
UploadBroadcast(t) ==
    /\ t.kind = "upload" /\ t.pc = "bcast"
    /\ \E fail \in SUBSET (MembersOf(rooms, t.room) \cap FailableConns) :
          tasks' = (tasks \ {t}) \cup
             {[t EXCEPT !.pc = "done", !.seen =
                 <<Seen(0, "broadcast", FALSE, FALSE,
                        Broadcast(rooms, t.room, "", fail), MembersOf(rooms, t.room))>>],
              HintTask("vhint", t.id, t.room, t.userID, t.username, "", t.ts)}
    /\ UNCHANGED <<rooms, connMeta, registered, api, conn, db, frames>>

(***************************************************************************)
(* The running system                                                      *)
(***************************************************************************)
UploadUsers == {2}

Init ==
    /\ rooms = EmptyMap
    /\ connMeta = EmptyMap
    /\ registered = {}
    /\ api = NoCall
    /\ InitSystem

\* part_003: the life of a connection, from the upgrade to c.Close()
Lifecycle ==
    \/ \E c \in ConnIDs : Accept(c)
    \/ \E c \in ConnIDs : Welcome(c)
    \/ \E c \in ConnIDs : ReadError(c)
    \/ \E c \in ConnIDs : Panic(c)
    \/ \E c \in ConnIDs : TdBroadcast(c)
    \/ \E c \in ConnIDs : TdUnregister(c)
    \/ \E c \in ConnIDs : TdClose(c)

\* message.go: "join" and "leave" frames
Membership ==
    \/ \E c \in ConnIDs : Return(c)
    \/ \E c \in ConnIDs, r \in RoomIDs \cup {""} : RecvJoin(c, r)
    \/ \E c \in ConnIDs : JoinBroadcastLeave(c)
    \/ \E c \in ConnIDs : JoinJoin(c)
    \/ \E c \in ConnIDs : JoinBroadcast(c)
    \/ \E c \in ConnIDs : JoinHistory(c)
    \/ \E c \in ConnIDs : RecvLeave(c)
    \/ \E c \in ConnIDs : LeaveBroadcast(c)

\* message.go: "chat", "seen" and "list" frames; voice.go: the upload endpoint
Messaging ==
    \/ \E c \in ConnIDs, b \in ChatBodies : RecvChat(c, b[1], b[2])
    \/ \E c \in ConnIDs : ChatBroadcast(c)
    \/ \E c \in ConnIDs, ts \in ClientTimestamps, r \in SeenRooms : RecvSeen(c, ts, r)
    \/ \E c \in ConnIDs : SeenBroadcast(c)
    \/ \E c \in ConnIDs : RecvList(c)
    \/ \E c \in ConnIDs : ListAnnotate(c)
    \/ \E c \in ConnIDs, f \in OtherFrames : RecvOther(c, f)
    \/ \E u \in UploadUsers, r \in RoomIDs : UploadVoice(u, r)
    \/ \E t \in tasks : UploadBroadcast(t)

\* the detached goroutines: notifyUserStatusChange
Presence ==
    \/ \E t \in tasks : TaskLookup(t)
    \/ \E t \in tasks, p \in UserIDs : StatusSend(t, p)
    \/ \E t \in tasks : TaskExit(t)

\* the detached goroutines: notifyNewMessage, notifyNewVoiceMessage
Hints ==
    \/ \E t \in tasks : TaskLookup(t)
    \/ \E t \in tasks, p \in UserIDs : HintCheckOnline(t, p)
    \/ \E t \in tasks : HintCheckInRoom(t)
    \/ \E t \in tasks : HintSend(t)
    \/ \E t \in tasks : TaskExit(t)

Next == Lifecycle \/ Membership \/ Messaging \/ Presence \/ Hints

Spec == Init /\ [][Next]_vars

\* sessions come and go and move between rooms; no messages
NextSession == Lifecycle \/ Membership \/ Presence

SpecSession == Init /\ [][NextSession]_vars

\* the three sessions are established and idle in ReadMessage: c1 is viewing r1, the
\* other two view some room or none; nothing has been persisted yet
Established(room) == [IdleConn EXCEPT !.pc = "loop", !.room = room]

InitChat ==
    \E cr \in [ConnIDs -> RoomIDs \cup {""}] :
        /\ cr["c1"] = "r1"
        /\ conn = [c \in ConnIDs |-> Established(cr[c])]
        /\ rooms = [r \in {cr[c] : c \in ConnIDs} \ {""} |-> {c \in ConnIDs : cr[c] = r}]
        /\ connMeta = [c \in ConnIDs |-> Meta(UserOf[c], Username(c))]
        /\ registered = {}
        /\ api = NoCall
        /\ tasks = {}
        /\ db = <<>>
        /\ frames = 0

\* established sessions exchange frames; nobody connects or disconnects
NextChat == Membership \/ Messaging \/ Hints

SpecChat == InitChat /\ [][NextChat]_vars

(***************************************************************************)
(* C3: in every reachable state of the running system each session id is  *)
(* a member of at most one room's member set.                             *)
(***************************************************************************)
RoomsOf(c) == {r \in DOMAIN rooms : c \in rooms[r]}

C3_AtMostOneRoom == \A c \in ConnIDs : Cardinality(RoomsOf(c)) <= 1

\* c1 has switched from r1 to r2: handleJoin left r1, which became empty, then joined
C3_Witness ==
    /\ conn["c1"].pc = "ret" /\ conn["c1"].msg.Event = "join"
    /\ Len(conn["c1"].log) >= 3
    /\ conn["c1"].log[1] = ELeave("r1") /\ conn["c1"].log[3] = EJoin("r2")
    /\ RoomsOf("c1") = {"r2"}

(***************************************************************************)
(* C4: IsUserOnline(U) holds iff some live connection (accepted, not yet  *)
(* torn down) authenticated as U; a connection that has been torn down    *)
(* has no metadata entry and no room membership left, so once every       *)
(* connection of U is gone U is offline and nothing of U remains.         *)
(***************************************************************************)
Gone(c) == conn[c].pc \in {"td.close", "closed"}

OpsOf(log) == [i \in DOMAIN log |-> log[i].op]

C6_Saved(c) ==
    LET row == conn'[c].loc.row
    IN  /\ db' = Append(db, row)
        /\ \A i \in DOMAIN db : db[i].id # row.id
        /\ row.room = conn[c].room /\ row.userID = UserOf[c]
        /\ row.text = conn'[c].msg.Text /\ row.voice = conn'[c].msg.Voice
        /\ row.text # "" \/ row.voice # ""
        /\ ~row.has_seen
        /\ conn'[c].log = <<[op |-> "SaveMessage", row |-> row, err |-> FALSE]>>
        /\ UNCHANGED <<rooms, connMeta, tasks>>

C6_Sent(c) ==
    LET row == conn[c].loc.row
        r   == conn[c].room
        log == conn'[c].log
    IN  /\ db' = db
        /\ OpsOf(log) = <<"SaveMessage", "Broadcast", "go">>
        /\ log[1] = conn[c].log[1]
        /\ log[2].room = r /\ log[2].exclude = ""
        /\ log[2].ev = [event |-> "chat", id |-> row.id, room |-> r, text |-> row.text,
                        voice |-> row.voice, username |-> Username(c),
                        timestamp |-> row.created_at, has_seen |-> FALSE]
        /\ log[2].to = JoinedTo(r) /\ log[2].ok = JoinedTo(r)
        /\ c \in log[2].to
        /\ \A d \in ConnIDs : conn[d].room # r => d \notin log[2].to

C6_ChatSavedThenBroadcast ==
    [][\A c \in ConnIDs :
          /\ (conn[c].pc = "loop" /\ conn'[c].pc = "chat.bcast") => C6_Saved(c)
          /\ (conn[c].pc = "chat.bcast" /\ conn'[c].pc = "ret") => C6_Sent(c)]_vars

\* c1 spoke in r1, where c3 is too, while c2 was viewing r2
C6_Witness ==
    /\ conn["c1"].pc = "ret" /\ conn["c1"].msg.Event = "chat" /\ conn["c1"].room = "r1"
    /\ conn["c2"].room = "r2" /\ conn["c2"].pc = "loop"
    /\ Len(conn["c1"].log) = 3
    /\ conn["c1"].log[2].to = {"c1", "c3"} /\ conn["c1"].log[2].ok = {"c1", "c3"}
    /\ Len(db) = 1 /\ db[1].text = "hi"

(***************************************************************************)
(* C7: the goroutine started after a saved message looks at every         *)
(* persisted participant of the room but the sender, and sends the hint   *)
(* to the live sessions of exactly those who, when it looked, were online *)
(* and had no session joined to the room; offline participants and        *)
(* participants viewing the room get nothing.                              *)
(***************************************************************************)
C7_Entry(t, i) ==
    LET s == t.seen[i]
    IN  /\ s.p \in Participants[t.room] \ {t.userID}
        /\ s.why \in {"online", "offline", "inroom", "sent"}
        /\ s.why = "online"  => s.wasOnline /\ i = Len(t.seen) /\ s.to = {}
        /\ s.why = "offline" => ~s.wasOnline /\ s.to = {}
        /\ s.why = "inroom"  => s.wasOnline /\ s.wasInRoom /\ s.to = {}
        /\ s.why = "sent"    => /\ s.wasOnline /\ ~s.wasInRoom
                                /\ s.to = s.sessions /\ s.ok = s.sessions
                                /\ s.sessions # {}
                                /\ \A c \in s.sessions : UserOf[c] = s.p
                                /\ s.ev.event = "new_message"
        /\ \A j \in DOMAIN t.seen : j # i => t.seen[j].p # s.p

C7_HintRecipients ==
    \A t \in tasks :
        t.kind \in {"hint", "vhint"} =>
            /\ \A i \in DOMAIN t.seen : C7_Entry(t, i)
            /\ (t.pc = "loop" /\ t.todo = {}) =>
                  {t.seen[i].p : i \in DOMAIN t.seen} = Participants[t.room] \ {t.userID}

\* bob spoke in r2 (alice, carol): alice, online on two devices and viewing
\* elsewhere, is hinted on both; carol is offline
C7_Witness ==
    \E t \in tasks :
        /\ t.kind = "hint" /\ t.room = "r2" /\ t.userID = 2
        /\ t.pc = "loop" /\ t.todo = {}
        /\ \E i, j \in DOMAIN t.seen :
              /\ t.seen[i].p = 1 /\ t.seen[i].why = "sent" /\ t.seen[i].to = {"c1", "c2"}
              /\ t.seen[j].p = 3 /\ t.seen[j].why = "offline"

(***************************************************************************)
(* C8: every new_message hint that is sent carries room, sender_id,       *)
(* sender_username, a type "text" or "voice" and timestamp, and has no    *)
(* text field, whether a WebSocket chat or a voice upload caused it.      *)
(***************************************************************************)
C8_HintHasTypeAndNoText ==
    \A t \in tasks : \A i \in DOMAIN t.seen :
        LET n == t.seen[i].ev
        IN  n.event = "new_message" =>
               /\ {"room", "sender_id", "sender_username", "type", "timestamp"}
                     \subseteq DOMAIN n
               /\ n.type \in {"text", "voice"}
               /\ "text" \notin DOMAIN n

(***************************************************************************)
(* C9: a chat frame with neither text nor voice from a session joined to  *)
(* r is answered with one validation error, written to the sender's       *)
(* socket only; the handler then returns.  No row is inserted, nothing is *)
(* broadcast, no goroutine is started, and currentRoom, rooms and         *)
(* connMeta are as before.                                                 *)
(***************************************************************************)
EmptyChat == [Event |-> "chat", Room |-> "", Text |-> "", Voice |-> ""]

C9_Rejected(c) ==
    /\ conn'[c].pc = "ret"
    /\ conn'[c].log =
          <<[op |-> "SendJSON",
             ev |-> [event |-> "error", error |-> "message must have either text or voice"],
             to |-> {c}, ok |-> {c}]>>
    /\ conn'[c].room = conn[c].room
    /\ UNCHANGED <<db, rooms, connMeta, tasks>>

C9_Returned(c) ==
    /\ conn'[c].pc = "loop"
    /\ conn'[c].room = conn[c].room
    /\ UNCHANGED <<db, rooms, connMeta, tasks>>

C9_EmptyChatRejected ==
    [][\A c \in ConnIDs :
          /\ (/\ conn[c].pc = "loop" /\ conn[c].room # ""
              /\ conn'[c].pc # "loop" /\ conn'[c].msg = EmptyChat) => C9_Rejected(c)
          /\ (/\ conn[c].pc = "ret" /\ conn[c].room # "" /\ conn[c].msg = EmptyChat
              /\ conn'[c] # conn[c]) => C9_Returned(c)]_vars

\* bob sent an empty chat while viewing r1 with alice: only his own socket was written
C9_Witness ==
    /\ conn["c3"].pc = "ret" /\ conn["c3"].msg = EmptyChat /\ conn["c3"].room = "r1"
    /\ JoinedTo("r1") = {"c1", "c3"}
    /\ Len(conn["c3"].log) = 1 /\ conn["c3"].log[1].to = {"c3"}
    /\ db = <<>> /\ tasks = {}

(***************************************************************************)
(* C10: the threshold a seen frame passes to MarkMessagesSeen is derived  *)
(* from the frame's own timestamp T: T * 1000 when T < 10^12, else T.     *)
(***************************************************************************)
C10_ThresholdFromClient ==
    \A c \in ConnIDs : \A i \in DOMAIN conn[c].log :
        conn[c].log[i].op = "MarkMessagesSeen" =>
            conn[c].log[i].before = NormalizeSeenTs(conn[c].log[i].clientTs)

(***************************************************************************)
(* C11: a leave frame received with no current room is a no-op: nothing   *)
(* is called, nothing is written, and rooms, metadata, rows and tasks are *)
(* as before.  A leave frame received while viewing r makes exactly one   *)
(* Leave(r) and one "leave" broadcast to r and clears the current room,   *)
(* so of two consecutive leave frames only the first acts.                *)
(***************************************************************************)
C11_LeaveFrame(c) ==
    /\ conn[c].pc = "loop"
    /\ conn'[c].pc # "loop"
    /\ conn'[c].msg.Event = "leave"

C11_LeaveIdempotent ==
    [][\A c \in ConnIDs :
          /\ (C11_LeaveFrame(c) /\ conn[c].room = "") =>
                /\ conn'[c].pc = "ret" /\ conn'[c].log = <<>> /\ conn'[c].room = ""
                /\ UNCHANGED <<rooms, connMeta, db, tasks>>
          /\ (C11_LeaveFrame(c) /\ conn[c].room # "") =>
                /\ conn'[c].pc = "leave.bcast"
                /\ conn'[c].log = <<ELeave(conn[c].room)>>
          /\ (conn[c].pc = "leave.bcast" /\ conn'[c] # conn[c]) =>
                /\ conn'[c].pc = "ret" /\ conn'[c].room = ""
                /\ OpsOf(conn'[c].log) = <<"Leave", "Broadcast">>
                /\ conn'[c].log[2].room = conn[c].room
                /\ conn'[c].log[2].ev.event = "leave"
                /\ UNCHANGED <<rooms, connMeta, db, tasks>>]_vars

\* alice left r1 with her first frame (there is no other way out of r1 to "no
\* room"); her second leave frame has just been handled and did nothing
C11_Witness ==
    /\ conn["c1"].pc = "ret" /\ conn["c1"].msg.Event = "leave"
    /\ conn["c1"].room = "" /\ conn["c1"].log = <<>>
    /\ frames = 2 /\ RoomsOf("c1") = {}

(***************************************************************************)
(* C12: after any sequence of Join, Leave and UnregisterConnection calls  *)
(* the room map holds no entry whose member set is empty; and from any    *)
(* such state, Join(room, s) followed by Leave(room, s) on a room that    *)
(* had no entry leaves no entry for it (the map is as it was).            *)
(***************************************************************************)
C12_NoEmptyRooms ==
    /\ \A r \in DOMAIN rooms : rooms[r] # {}
    /\ \A r \in RoomIDs \ DOMAIN rooms : \A c \in ConnIDs :
          Leave(Join(rooms, connMeta, r, c, UserOf[c], NameOf[UserOf[c]]).rooms,
                r, c) = rooms

\* the only member of a room was removed by an UnregisterConnection (it was in both
\* rooms and the only member of each), and the map is empty again
C12_Witness ==
    /\ api.op = "Unregister" /\ api.ret
    /\ api.pre.rooms = [r \in RoomIDs |-> {api.connID}]
    /\ rooms = EmptyMap

(***************************************************************************)
(* C13: with connections of one user accepted and torn down by           *)
(* concurrently running goroutines, every step that takes a user from     *)
(* offline to online is one RegisterConnection that returned true, every  *)
(* step that takes a user from online to offline is one                   *)
(* UnregisterConnection that returned true, and a call returns true on no *)
(* other step; this holds under every interleaving of the goroutines.     *)
(***************************************************************************)
\* connection c made the call recorded as e in this step
C13_Made(c, e) ==
    \E i \in DOMAIN conn'[c].log : i > Len(conn[c].log) /\ conn'[c].log[i] = e

C13_Callers(u, pc, e) ==
    {c \in ConnIDs : UserOf[c] = u /\ conn[c].pc = pc /\ conn'[c].pc # pc /\ C13_Made(c, e)}

C13_EdgesAtomic ==
    [][\A u \in UserIDs :
          LET was  == IsUserOnline(connMeta, u)
              now  == IsUserOnline(connMeta', u)
              up   == C13_Callers(u, "new", ERegister(TRUE))
              down == C13_Callers(u, "td.unreg", EUnregister(TRUE))
          IN  /\ (~was /\ now) <=> Cardinality(up) = 1
              /\ (was /\ ~now) <=> Cardinality(down) = 1
              /\ Cardinality(up) <= 1 /\ Cardinality(down) <= 1
              /\ C13_Callers(u, "new", ERegister(FALSE)) # {} => was /\ now
              /\ C13_Callers(u, "td.unreg", EUnregister(FALSE)) # {} => was /\ now]_vars

\* two connections of alice overlapped: c2 was accepted while c1 was on its way out;
\* neither call reported an edge and alice is still online
C13_Witness ==
    /\ conn["c1"].pc = "td.close"
    /\ \E i \in DOMAIN conn["c1"].log : conn["c1"].log[i] = EUnregister(FALSE)
    /\ conn["c2"].pc = "welcome" /\ conn["c2"].log[1] = ERegister(FALSE)
    /\ IsUserOnline(connMeta, 1)

(***************************************************************************)
(* C14: a user_status goroutine is started exactly on the step that takes *)
(* a user from no registered session to one ("online") or from one to     *)
(* none ("offline"), and on no step that adds or removes an additional    *)
(* session; each notification is written to the sessions, live at the     *)
(* time of the send, of users who share a persisted room with the user    *)
(* concerned, never to a session of that user, and a goroutine that has   *)
(* finished its loop has addressed every such user.                       *)
(***************************************************************************)
C14_Sharing(u) ==
    {p \in UserIDs \ {u} : \E r \in RoomIDs : u \in Participants[r] /\ p \in Participants[r]}

\* the connections of u whose goroutine announcing `status` starts in this step
C14_Started(u, status) ==
    {c \in ConnIDs : UserOf[c] = u /\ StatusTask(c, status) \in tasks' \ tasks}

C14_Recipients ==
    \A t \in tasks :
        t.kind = "status" =>
            /\ \A i \in DOMAIN t.seen :
                  LET s == t.seen[i]
                  IN  /\ s.p \in C14_Sharing(t.userID)
                      /\ s.to = s.sessions /\ s.ok = s.to
                      /\ \A c \in s.to : UserOf[c] = s.p /\ UserOf[c] # t.userID
                      /\ \A j \in DOMAIN t.seen : j # i => t.seen[j].p # s.p
            /\ (t.pc = "loop" /\ t.todo = {}) =>
                  {t.seen[i].p : i \in DOMAIN t.seen} = C14_Sharing(t.userID)

C14_PresenceNotifications ==
    /\ [][\A u \in UserIDs :
            LET was == IsUserOnline(connMeta, u)
                now == IsUserOnline(connMeta', u)
            IN  /\ C14_Started(u, "online") # {} <=> (~was /\ now)
                /\ C14_Started(u, "offline") # {} <=> (was /\ ~now)
                /\ Cardinality(C14_Started(u, "online")) <= 1
                /\ Cardinality(C14_Started(u, "offline")) <= 1]_vars
    /\ []C14_Recipients

\* alice came online with c1, and bob's session c3 was told; her second session c2
\* has just been accepted and started nothing
C14_Witness ==
    /\ conn["c2"].pc = "welcome" /\ conn["c2"].log = <<ERegister(FALSE)>>
    /\ \A t \in tasks : t.origin # "c2"
    /\ \E t \in tasks :
          /\ t.kind = "status" /\ t.origin = "c1" /\ t.status = "online"
          /\ \E i \in DOMAIN t.seen : t.seen[i].p = 2 /\ t.seen[i].to = {"c3"}

(***************************************************************************)
(* SpecWire: the write path, one WriteJSON at a time.                     *)
(*                                                                         *)
(* Broadcast and SendToUser take m.mu.RLock (rooms.go:55, 174), which     *)
(* does not exclude other readers, and utils.SendJSON takes no lock at    *)
(* all (db.go:95-103); a handler's replies on its own socket are made     *)
(* outside any lock.  So a write is two steps here: the goroutine enters  *)
(* WriteJSON on a socket, and later the write completes.  Membership does *)
(* not change in this specification: while a loop runs under RLock the    *)
(* map it ranges over is the map of the state.                             *)
(***************************************************************************)
Garbled == [event |-> "garbled"]

\* a goroutine enters c.WriteJSON on the socket of session m
SockEnter(cn, m) ==
    [cn EXCEPT ![m].writing = @ + 1, ![m].raced = @ \/ cn[m].writing >= 1]

\* what a write can come to: alone on the socket it delivers the payload; when it
\* overlapped another write the frames may interleave on the wire, or the
\* library may detect the overlap and panic in the writing goroutine
WriteOutcomes(cn, m) == IF cn[m].raced THEN {"ok", "garbled", "panic"} ELSE {"ok"}

\* the write on the socket of m is over
SockLeave(cn, m, payload, outcome) ==
    [cn EXCEPT ![m].writing = @ - 1,
               ![m].raced = IF cn[m].writing = 1 THEN FALSE ELSE @,
               ![m].inbox = IF outcome = "ok" THEN Append(@, payload)
                            ELSE IF outcome = "garbled" THEN Append(@, Garbled)
                            ELSE @]

\* message.go:236-243  a chat frame with nothing to send: the handler enters
\*                     SendJSON(c, error) on its own socket
RecvEmptyChat(c) ==
    /\ CanRead(c)
    /\ conn[c].room # ""
    /\ conn' = SockEnter([conn EXCEPT ![c].pc = "own.write",
                            ![c].msg = Frame("chat", "", "", ""),
                            ![c].log = <<ESendJSON(c, ValidationError, FALSE)>>], c)
    /\ frames' = frames + 1
    /\ UNCHANGED <<rooms, connMeta, registered, api, tasks, db>>

\* db.go:102  the write of the error reply completes; the handler returns
ErrorWritten(c) ==
    /\ conn[c].pc = "own.write"
    /\ ~conn[c].stalled
    /\ \E outcome \in WriteOutcomes(conn, c) :
          conn' = SockLeave([conn EXCEPT ![c].pc = IF outcome = "panic" THEN "panic"
                                                   ELSE "ret"],
                            c, ValidationError, outcome)
    /\ UNCHANGED <<rooms, connMeta, registered, api, tasks, db, frames>>

\* rooms.go:55-58  Manager.Broadcast(currentRoom, chat, ""): RLock, look the room up
BroadcastRLock(c) ==
    /\ conn[c].pc = "chat.bcast"
    /\ Goto(c, "bc.loop",
            <<EBroadcast(conn[c].room, ChatEvent(conn[c].loc.row), "", NoWrites)>>)
    /\ UNCHANGED <<rooms, connMeta, registered, api, tasks, db, frames>>

\* the Broadcast call connection c is in: the last entry of its log
Call(c) == conn[c].log[Len(conn[c].log)]

\* rooms.go:59-62  the members the range loop has yet to visit
BroadcastTodo(c) ==
    MembersOf(rooms, Call(c).room) \ (Call(c).to \cup {Call(c).exclude})

\* rooms.go:59-66  the loop reaches member m (in map order: any) and enters SendJSON
BroadcastWrite(c, m) ==
    /\ conn[c].pc = "bc.loop"
    /\ m \in BroadcastTodo(c)
    /\ conn' = SockEnter([conn EXCEPT ![c].pc = "bc.write",
                            ![c].log[Len(conn[c].log)].to = @ \cup {m}], m)
    /\ UNCHANGED <<rooms, connMeta, registered, api, tasks, db, frames>>

\* rooms.go:66-70  SendJSON returns: the loop goes on
BroadcastWritten(c) ==
    /\ conn[c].pc = "bc.write"
    /\ \E m \in Call(c).to \ Call(c).ok :
          /\ ~conn[m].stalled
          /\ \E outcome \in WriteOutcomes(conn, m) :
                conn' = SockLeave([conn EXCEPT
                                     ![c].pc = IF outcome = "panic" THEN "panic"
                                               ELSE "bc.loop",
                                     ![c].log[Len(conn[c].log)].ok = @ \cup {m}],
                                  m, Call(c).ev, outcome)
    /\ UNCHANGED <<rooms, connMeta, registered, api, tasks, db, frames>>

\* rooms.go:56, message.go:292  the loop is over: RUnlock; go notifyNewMessage(...)
BroadcastRUnlock(c) ==
    /\ conn[c].pc = "bc.loop"
    /\ BroadcastTodo(c) = {}
    /\ Goto(c, "ret", <<EGo("hint", "")>>)
    /\ tasks' = tasks \cup {HintTask("hint", conn[c].loc.row.id, conn[c].room, UserOf[c],
                                     Username(c), conn[c].msg.Text,
                                     conn[c].loc.row.created_at)}
    /\ UNCHANGED <<rooms, connMeta, registered, api, db, frames>>

\* the SendToUser call goroutine t is in: the last entry of what it has seen
Sending(t) == t.seen[Len(t.seen)]

\* rooms.go:177-178  the sessions of the user the range loop has yet to visit
SendToUserTodo(t) ==
    {k \in DOMAIN connMeta : connMeta[k].UserID = t.cur} \ Sending(t).to

\* rooms.go:177-179  the loop reaches session m of the user and enters SendJSON
SendToUserWrite(t, m) ==
    /\ t.kind \in {"hint", "vhint"} /\ t.pc = "send"
    /\ m \in SendToUserTodo(t)
    /\ UpdateTask(t, [t EXCEPT !.pc = "send.write", !.seen[Len(t.seen)].to = @ \cup {m}])
    /\ conn' = SockEnter(conn, m)
    /\ UNCHANGED <<rooms, connMeta, registered, api, db, frames>>

\* rooms.go:179-181  SendJSON returns: the loop goes on
SendToUserWritten(t) ==
    /\ t.pc = "send.write"
    /\ \E m \in Sending(t).to \ Sending(t).ok :
          /\ ~conn[m].stalled
          /\ \E outcome \in WriteOutcomes(conn, m) :
                /\ UpdateTask(t, [t EXCEPT !.pc = IF outcome = "panic" THEN "panic"
                                                  ELSE "send",
                                           !.seen[Len(t.seen)].ok = @ \cup {m}])
                /\ conn' = SockLeave(conn, m, Notification(t), outcome)
    /\ UNCHANGED <<rooms, connMeta, registered, api, db, frames>>

\* rooms.go:175, message.go:322  the loop is over: RUnlock, next participant
SendToUserRUnlock(t) ==
    /\ t.kind \in {"hint", "vhint"} /\ t.pc = "send"
    /\ SendToUserTodo(t) = {}
    /\ UpdateTask(t, [t EXCEPT !.pc = "loop", !.cur = 0,
                        !.seen[Len(t.seen)].why = "sent",
                        !.seen[Len(t.seen)].ev = Notification(t)])
    /\ UNCHANGED <<rooms, connMeta, registered, api, conn, db, frames>>

\* the steps connection c takes by itself once it has read a frame
ConnStep(c) ==
    \/ ErrorWritten(c)
    \/ BroadcastRLock(c)
    \/ \E m \in ConnIDs : BroadcastWrite(c, m)
    \/ BroadcastWritten(c)
    \/ BroadcastRUnlock(c)
    \/ Return(c)

\* the steps of the detached notifyNewMessage goroutines
HintStep ==
    \/ \E t \in tasks : TaskLookup(t)
    \/ \E t \in tasks, p \in UserIDs : HintCheckOnline(t, p)
    \/ \E t \in tasks : HintCheckInRoom(t)
    \/ \E t \in tasks, m \in ConnIDs : SendToUserWrite(t, m)
    \/ \E t \in tasks : SendToUserWritten(t)
    \/ \E t \in tasks : SendToUserRUnlock(t)
    \/ \E t \in tasks : TaskExit(t)

\* the sessions that send frames
WireSenders == {"c1", "c2"}

\* the senders view r1; bob's session is connected and views no room
InitWire ==
    /\ conn = [c \in ConnIDs |-> Established(IF c \in WireSenders THEN "r1" ELSE "")]
    /\ rooms = [r \in {"r1"} |-> WireSenders]
    /\ connMeta = [c \in ConnIDs |-> Meta(UserOf[c], Username(c))]
    /\ registered = {}
    /\ api = NoCall
    /\ tasks = {}
    /\ db = <<>>
    /\ frames = 0

\* chat frames arrive; every write completes sooner or later
NextWire ==
    \/ \E c \in WireSenders : RecvChat(c, "hi", "")
    \/ \E c \in WireSenders : RecvEmptyChat(c)
    \/ \E c \in ConnIDs : ConnStep(c)
    \/ HintStep

SpecWire == InitWire /\ [][NextWire]_vars

(***************************************************************************)
(* C15: any two chat broadcasts to a room reach every session that        *)
(* receives both in the same relative order, whatever the interleaving of *)
(* the connection goroutines that issued them.                            *)
(***************************************************************************)
\* the place of chat message id among the payloads session m has received, or 0
ChatPlace(m, id) ==
    LET at == {i \in DOMAIN conn[m].inbox :
                  conn[m].inbox[i].event = "chat" /\ conn[m].inbox[i].id = id}
    IN  IF at = {} THEN 0 ELSE CHOOSE i \in at : TRUE

C15_SameOrderEverywhere ==
    \A m, n \in ConnIDs : \A a, b \in 1..Len(db) :
        (/\ ChatPlace(m, a) > 0 /\ ChatPlace(m, b) > 0
         /\ ChatPlace(n, a) > 0 /\ ChatPlace(n, b) > 0)
            => (ChatPlace(m, a) < ChatPlace(m, b) <=> ChatPlace(n, a) < ChatPlace(n, b))

(***************************************************************************)
(* C16: at no time are two goroutines inside WriteJSON on the socket of   *)
(* one session: the writes of Broadcast, of SendToUser called by the      *)
(* notification goroutines, and of a handler replying on its own socket   *)
(* exclude one another.                                                    *)
(***************************************************************************)
C16_OneWriterPerSocket == \A m \in ConnIDs : conn[m].writing <= 1

(***************************************************************************)
(* SpecWireStall: as SpecWire, with a recipient whose peer stops reading  *)
(* at some moment: from then on a WriteJSON on its socket never returns   *)
(* (no write deadline is set anywhere).  Every goroutine that can take a  *)
(* step eventually does.                                                   *)
(***************************************************************************)
StalledConns == {"c2"}

\* the peer of session m stops reading, for good
Stall(m) ==
    /\ ~conn[m].stalled
    /\ conn' = [conn EXCEPT ![m].stalled = TRUE]
    /\ UNCHANGED <<rooms, connMeta, registered, api, tasks, db, frames>>

NextWireStall ==
    \/ NextWire
    \/ \E m \in StalledConns : Stall(m)

SpecWireStall ==
    /\ InitWire
    /\ [][NextWireStall]_vars
    /\ \A c \in ConnIDs : WF_vars(ConnStep(c))
    /\ WF_vars(HintStep)

(***************************************************************************)
(* C17: when the write to one member of a room never completes, a chat    *)
(* broadcast to the room still reaches every other member eventually      *)
(* (unless two writes collided on a socket, which is another matter).     *)
(***************************************************************************)
C17_Delivered(id) ==
    /\ id \in DOMAIN db
    /\ \A m \in MembersOf(rooms, db[id].room) :
          conn[m].stalled \/ ChatPlace(m, id) > 0

C17_Collided ==
    \/ \E c \in ConnIDs : conn[c].pc = "panic"
    \/ \E t \in tasks : t.pc = "panic"
    \/ \E m \in ConnIDs : \E i \in DOMAIN conn[m].inbox : conn[m].inbox[i] = Garbled

C17_StalledPeerDoesNotBlock ==
    \A c \in WireSenders : \A id \in 1..MaxFrames :
        (conn[c].pc = "chat.bcast" /\ conn[c].loc.row.id = id)
            ~> (C17_Delivered(id) \/ C17_Collided)

(***************************************************************************)
(* C18: after RoomManager.Join(room, s) the session s is a member of room *)
(* and of no other room, whatever room it was a member of before; and a   *)
(* Join of a session that is already a member of room leaves the room     *)
(* map as it was.                                                          *)
(***************************************************************************)
C18_JoinIdempotent ==
    (api.op = "Join" /\ api.connID \in MembersOf(api.pre.rooms, api.room))
        => rooms = api.pre.rooms

C18_JoinMovesSession ==
    /\ api.op = "Join" => RoomsOf(api.connID) = {api.room}
    /\ C18_JoinIdempotent

(***************************************************************************)
(* C19: UnregisterConnection of a session id that has no metadata entry   *)
(* (never registered, or unregistered already) returns false and leaves   *)
(* connMeta and rooms exactly as they were; it has a result in every      *)
(* state of the registry.                                                  *)
(***************************************************************************)
C19_UnknownIdNoOp ==
    /\ (api.op = "Unregister" /\ api.connID \notin DOMAIN api.pre.connMeta) =>
          /\ api.ret = FALSE
          /\ connMeta = api.pre.connMeta
          /\ rooms = api.pre.rooms
    /\ \A c \in ConnIDs :
          c \notin DOMAIN connMeta =>
              UnregisterConnection(rooms, connMeta, c) =
                  [rooms |-> rooms, connMeta |-> connMeta, ret |-> FALSE]

\* c1 is unregistered a second time while alice's other session and bob's are
\* registered and in rooms: nothing moves
C19_Witness ==
    /\ api.op = "Unregister" /\ api.connID = "c1" /\ ~api.ret
    /\ DOMAIN api.pre.connMeta = {"c2", "c3"}
    /\ DOMAIN connMeta = {"c2", "c3"}
    /\ rooms = [r \in RoomIDs |-> IF r = "r1" THEN {"c2"} ELSE {"c3"}]

(***************************************************************************)
(* C20: UnregisterConnection of a registered session removes its metadata *)
(* entry and its membership of every room, and changes nothing else: every*)
(* other session has the metadata and the memberships it had.             *)
(***************************************************************************)
C20_UnregisterFrame ==
    (api.op = "Unregister" /\ api.connID \in DOMAIN api.pre.connMeta) =>
        /\ api.connID \notin DOMAIN connMeta
        /\ RoomsOf(api.connID) = {}
        /\ DOMAIN connMeta = DOMAIN api.pre.connMeta \ {api.connID}
        /\ \A k \in DOMAIN connMeta : connMeta[k] = api.pre.connMeta[k]
        /\ \A r \in RoomIDs :
              MembersOf(rooms, r) = MembersOf(api.pre.rooms, r) \ {api.connID}

\* c1 shared r1 with c2 and was alone in r2; c3 was registered and in no room
C20_Witness ==
    /\ api.op = "Unregister" /\ api.connID = "c1"
    /\ api.pre.rooms = [r \in RoomIDs |-> IF r = "r1" THEN {"c1", "c2"} ELSE {"c1"}]
    /\ DOMAIN api.pre.connMeta = ConnIDs
    /\ rooms = [r \in {"r1"} |-> {"c2"}]
    /\ DOMAIN connMeta = {"c2", "c3"}

(***************************************************************************)
(* C21: SendToUser(U, payload) attempts a write to every session that has *)
(* a metadata entry for user U, whether or not it is a member of a room,  *)
(* and to no session of another user; a failing write does not stop the   *)
(* others: every session of U whose write does not fail gets the payload. *)
(***************************************************************************)
C21_SendToUserAllSessions ==
    api.op = "SendToUser" =>
        /\ api.to = {k \in DOMAIN connMeta : connMeta[k].UserID = api.userID}
        /\ \A k \in api.to : UserOf[k] = api.userID
        /\ api.ok = api.to \ api.fail

\* alice has c1 in r1 and c2 in no room, bob's c3 is in r1 too; the write to c1
\* fails and c2 still gets the payload, c3 is not written
C21_Witness ==
    /\ api.op = "SendToUser" /\ api.userID = 1
    /\ DOMAIN connMeta = ConnIDs
    /\ rooms = [r \in {"r1"} |-> {"c1", "c3"}]
    /\ api.fail = {"c1"} /\ api.to = {"c1", "c2"} /\ api.ok = {"c2"}

(***************************************************************************)
(* C22: handling a join frame that names a room makes its calls in this   *)
(* order: when a room was current, Leave(prev) and a leave broadcast to   *)
(* prev; then Join(target), with the current room set to target; then the *)
(* joined acknowledgment on the joiner's own socket; then a join          *)
(* broadcast to target that excludes the joiner and is not written to it; *)
(* then, last, the history snapshot on the joiner's own socket.           *)
(***************************************************************************)
\* the calls of a join from `prev` to `target`, in order, by kind and subject
C22_Order(prev, target) ==
    (IF prev = "" THEN <<>> ELSE <<<<"Leave", prev>>, <<"Broadcast", "leave">>>>)
    \o <<<<"Join", target>>, <<"SendJSON", "joined">>,
         <<"Broadcast", "join">>, <<"SendJSON", "history">>>>

C22_Kind(e) ==
    IF e.op \in {"Leave", "Join"} THEN <<e.op, e.room>> ELSE <<e.op, e.ev.event>>

C22_Calls(c) == [i \in DOMAIN conn[c].log |-> C22_Kind(conn[c].log[i])]

C22_IsPrefix(s, t) == Len(s) <= Len(t) /\ \A i \in DOMAIN s : s[i] = t[i]

\* the room the handler left, read off its first call
C22_Prev(c) ==
    IF conn[c].log # <<>> /\ conn[c].log[1].op = "Leave" THEN conn[c].log[1].room ELSE ""

C22_InOrder(c) ==
    LET target == conn[c].msg.Room
        calls  == C22_Calls(c)
        order  == C22_Order(C22_Prev(c), target)
    IN  /\ C22_IsPrefix(calls, order)
        /\ conn[c].pc = "ret" => Len(calls) >= Len(order) - 1
        /\ \A i \in DOMAIN conn[c].log :
              LET e == conn[c].log[i]
              IN  /\ e.op = "SendJSON" => e.to = {c}
                  /\ e.op = "Broadcast" =>
                        /\ c \notin e.to
                        /\ e.room = (IF e.ev.event = "leave" THEN C22_Prev(c) ELSE target)
                        /\ e.exclude = (IF e.ev.event = "leave" THEN "" ELSE c)
        /\ (\E i \in DOMAIN calls : calls[i] = <<"Join", target>>) => conn[c].room = target

C22_JoinInOrder ==
    /\ [](\A c \in ConnIDs :
            (conn[c].msg.Event = "join" /\ conn[c].msg.Room # "") => C22_InOrder(c))
    /\ [][\A c \in ConnIDs :
            (conn[c].pc = "loop" /\ conn'[c].pc # "loop" /\ conn'[c].msg.Event = "join"
               /\ conn'[c].msg.Room # "")
                => conn'[c].log = IF conn[c].room = "" THEN <<>>
                                  ELSE <<ELeave(conn[c].room)>>]_vars

\* alice's c1 moved from r1 to r2, where c2 was viewing: all six calls were made,
\* c2 was told of the join and c1 was not
C22_Witness ==
    /\ conn["c1"].pc = "ret" /\ conn["c1"].msg.Event = "join"
    /\ C22_Calls("c1") = C22_Order("r1", "r2")
    /\ conn["c1"].log[5].to = {"c2"}
    /\ conn["c1"].room = "r2"

(***************************************************************************)
(* C23: a chat frame read while no room is current does nothing at all,   *)
(* whatever its text and voice: the handler returns at once having made   *)
(* no call (no row saved, no broadcast, no goroutine started, no reply on *)
(* the sender's socket), and the registry is as before.                   *)
(***************************************************************************)
C23_UnjoinedChatIgnored ==
    [][\A c \in ConnIDs :
          /\ (/\ conn[c].pc = "loop" /\ conn[c].room = ""
              /\ conn'[c].pc # "loop" /\ conn'[c].msg.Event = "chat") =>
                /\ conn'[c].pc = "ret" /\ conn'[c].log = <<>> /\ conn'[c].room = ""
                /\ UNCHANGED <<db, tasks, rooms, connMeta>>
          /\ (/\ conn[c].pc = "ret" /\ conn[c].room = "" /\ conn[c].msg.Event = "chat"
              /\ conn'[c] # conn[c]) =>
                /\ conn'[c].pc = "loop" /\ conn'[c].room = ""
                /\ UNCHANGED <<db, tasks, rooms, connMeta>>]_vars

\* bob's session, viewing no room, sent a chat with a text: nothing was saved or sent
C23_Witness ==
    /\ conn["c3"].pc = "ret" /\ conn["c3"].room = ""
    /\ conn["c3"].msg = Frame("chat", "", "hi", "")
    /\ conn["c3"].log = <<>>
    /\ db = <<>> /\ tasks = {}

(***************************************************************************)
(* C24: when SaveMessage fails for a chat that has content, sent while a  *)
(* room is current, the handler returns having made no other call: no row *)
(* is added, nothing is broadcast, no hint goroutine is started, nothing  *)
(* is written to the sender, and the connection goes back to reading with *)
(* the same current room.                                                  *)
(***************************************************************************)
C24_SaveFailed(c) ==
    /\ conn[c].msg.Event = "chat" /\ conn[c].log # <<>>
    /\ conn[c].log[1].op = "SaveMessage" /\ conn[c].log[1].err

C24_SaveFailureSilent ==
    /\ [](\A c \in ConnIDs :
            C24_SaveFailed(c) =>
                conn[c].pc = "ret" /\ Len(conn[c].log) = 1 /\ conn[c].room # "")
    /\ [][\A c \in ConnIDs :
            /\ (conn[c].pc = "loop" /\ conn'[c].pc # "loop" /\ conn'[c].msg.Event = "chat"
                  /\ conn'[c].log # <<>> /\ conn'[c].log[1].op = "SaveMessage"
                  /\ conn'[c].log[1].err) =>
                  /\ conn'[c].room = conn[c].room
                  /\ UNCHANGED <<db, tasks, rooms, connMeta>>
            /\ (C24_SaveFailed(c) /\ conn'[c] # conn[c]) =>
                  /\ conn'[c].pc = "loop" /\ conn'[c].room = conn[c].room
                  /\ UNCHANGED <<db, tasks, rooms, connMeta>>]_vars

\* alice's chat in r1, viewed by bob too, could not be saved: the only call recorded
\* is the failed save
C24_Witness ==
    /\ conn["c1"].pc = "ret" /\ conn["c1"].room = "r1"
    /\ conn["c1"].msg = Frame("chat", "", "hi", "")
    /\ conn["c1"].log = <<ESaveMessage(conn["c1"].log[1].row, TRUE)>>
    /\ JoinedTo("r1") = {"c1", "c3"}
    /\ db = <<>> /\ tasks = {}

(***************************************************************************)
(* C25: when MarkMessagesSeen succeeds for a seen event resolved to room  *)
(* r, the handler first writes seen_successful to the sender's own        *)
(* session only, and then broadcasts messages_seen to r, carrying the     *)
(* sender's user id as seen_by and the number of rows the update changed  *)
(* as count, to every session that is a member of r, none excluded.       *)
(***************************************************************************)
C25_Marked(c) ==
    /\ conn[c].msg.Event = "seen" /\ conn[c].log # <<>>
    /\ conn[c].log[1].op = "MarkMessagesSeen" /\ ~conn[c].log[1].err

C25_Ack(c) ==
    /\ Len(conn[c].log) >= 2
    /\ conn[c].log[2].op = "SendJSON" /\ conn[c].log[2].to = {c}
    /\ conn[c].log[2].ev.event = "seen_successful"
    /\ conn[c].log[2].ev.room = conn[c].log[1].room

C25_SeenAckThenBroadcast ==
    /\ [](\A c \in ConnIDs :
            C25_Marked(c) =>
                /\ C25_Ack(c)
                /\ \/ conn[c].pc = "seen.bcast" /\ Len(conn[c].log) = 2
                   \/ conn[c].pc = "ret" /\ Len(conn[c].log) = 3
                                         /\ conn[c].log[3].op = "Broadcast")
    /\ [][\A c \in ConnIDs :
            (C25_Marked(c) /\ conn[c].pc = "seen.bcast" /\ conn'[c] # conn[c]) =>
                LET b == conn'[c].log[3]
                    r == conn[c].log[1].room
                IN  /\ conn'[c].pc = "ret" /\ Len(conn'[c].log) = 3
                    /\ b.op = "Broadcast" /\ b.room = r /\ b.exclude = ""
                    /\ b.ev.event = "messages_seen" /\ b.ev.room = r
                    /\ b.ev.seen_by = UserOf[c]
                    /\ b.ev.count = conn[c].log[1].updated
                    /\ b.to = MembersOf(rooms, r)]_vars

\* alice, viewing r1 with bob, marks bob's one message as seen: the acknowledgement,
\* then the broadcast with count 1 to both sessions, her own included
C25_Witness ==
    /\ conn["c1"].pc = "ret" /\ C25_Marked("c1") /\ Len(conn["c1"].log) = 3
    /\ conn["c1"].log[1].room = "r1" /\ conn["c1"].log[1].updated = 1
    /\ conn["c1"].log[3].ev.count = 1 /\ conn["c1"].log[3].ev.seen_by = 1
    /\ conn["c1"].log[3].to = {"c1", "c3"}

(***************************************************************************)
(* C26: when MarkMessagesSeen fails, the handler writes one seen_failed   *)
(* event, with the error and updated = 0, to the sender's session only    *)
(* and returns: no seen_successful, no broadcast, no row changed, and the *)
(* session is back in its read loop with the same current room and the    *)
(* same memberships.                                                       *)
(***************************************************************************)
C26_MarkFailed(c) ==
    /\ conn[c].msg.Event = "seen" /\ conn[c].log # <<>>
    /\ conn[c].log[1].op = "MarkMessagesSeen" /\ conn[c].log[1].err

C26_SeenFailureReported ==
    /\ [](\A c \in ConnIDs :
            C26_MarkFailed(c) =>
                /\ conn[c].pc = "ret" /\ Len(conn[c].log) = 2
                /\ conn[c].log[2].op = "SendJSON"
                /\ conn[c].log[2].ev = SeenFailed(conn[c].log[1].room)
                /\ conn[c].log[2].to = {c}
                /\ conn[c].log[2].ev.event = "seen_failed"
                /\ "error" \in DOMAIN conn[c].log[2].ev)
    /\ [][\A c \in ConnIDs :
            /\ (conn[c].pc = "loop" /\ conn'[c].pc # "loop" /\ conn'[c].msg.Event = "seen"
                  /\ conn'[c].log # <<>> /\ conn'[c].log[1].err) =>
                  /\ conn'[c].room = conn[c].room
                  /\ UNCHANGED <<db, tasks, rooms, connMeta>>
            /\ (C26_MarkFailed(c) /\ conn'[c] # conn[c]) =>
                  /\ conn'[c].pc = "loop" /\ conn'[c].room = conn[c].room
                  /\ UNCHANGED <<db, tasks, rooms, connMeta>>]_vars

\* bob has written to r1; alice's seen, sent while viewing r1 with him, fails in the
\* database: one seen_failed to her session, his row still unseen
C26_Witness ==
    /\ conn["c1"].pc = "ret" /\ C26_MarkFailed("c1")
    /\ conn["c1"].log[1].room = "r1" /\ conn["c1"].room = "r1"
    /\ conn["c1"].log[2].ev = SeenFailed("r1")
    /\ JoinedTo("r1") = {"c1", "c3"}
    /\ Len(db) = 1 /\ db[1].userID = 2 /\ ~db[1].has_seen

(***************************************************************************)
(* C27: a seen frame is applied to the session's current room when it has *)
(* one, whatever room the frame names; to the room the frame names when   *)
(* the session has no current room; and when neither is there the handler *)
(* returns at once: no MarkMessagesSeen, no reply, no broadcast.          *)
(***************************************************************************)
C27_Resolved(current, named) == IF current # "" THEN current ELSE named

C27_SeenRoomResolution ==
    /\ [](\A c \in ConnIDs :
            (conn[c].msg.Event = "seen" /\ conn[c].log = <<>>) => conn[c].pc = "ret")
    /\ [][\A c \in ConnIDs :
            (conn[c].pc = "loop" /\ conn'[c].pc # "loop" /\ conn'[c].msg.Event = "seen") =>
                LET r == C27_Resolved(conn[c].room, conn'[c].msg.Room)
                IN  IF r = ""
                    THEN /\ conn'[c].log = <<>> /\ conn'[c].pc = "ret"
                         /\ UNCHANGED <<db, tasks, rooms, connMeta>>
                    ELSE /\ conn'[c].log[1].op = "MarkMessagesSeen"
                         /\ conn'[c].log[1].room = r
                         /\ conn'[c].log[2].ev.room = r
                         /\ db' = IF conn'[c].log[1].err THEN db
                                  ELSE MarkMessagesSeen(db, r, UserOf[c],
                                                        conn'[c].log[1].before).rows
                         /\ \A i \in DOMAIN db : db[i].room # r => db'[i] = db[i]]_vars

\* alice views r1, where bob has written; her seen frame names r2: the row of r1 is
\* the one marked
C27_Witness ==
    /\ conn["c1"].room = "r1" /\ conn["c1"].msg = Frame("seen", "r2", "", "")
    /\ conn["c1"].log # <<>> /\ conn["c1"].log[1].room = "r1"
    /\ conn["c1"].log[1].updated = 1
    /\ Len(db) = 1 /\ db[1].room = "r1" /\ db[1].has_seen

\* a session with no current room names r2: r2 it is
C27_WitnessNamed ==
    \E c \in ConnIDs :
        /\ conn[c].room = "" /\ conn[c].msg = Frame("seen", "r2", "", "")
        /\ conn[c].pc = "ret" /\ Len(conn[c].log) = 3
        /\ conn[c].log[1].room = "r2" /\ conn[c].log[3].room = "r2"

\* a session with no current room names none: nothing was called
C27_WitnessIgnored ==
    \E c \in ConnIDs :
        /\ conn[c].room = "" /\ conn[c].msg = Frame("seen", "", "", "")
        /\ conn[c].pc = "ret" /\ conn[c].log = <<>>

(***************************************************************************)
(* C28: a list frame is handled the same with or without a current room. *)
(* The handler writes exactly one list event, to the requesting session   *)
(* only: the empty list when GetUserRooms fails; otherwise the caller's   *)
(* rooms, each marked "online" if IsUserOnline(other participant) was     *)
(* true at the moment that item was annotated and "offline" if not.  No   *)
(* step of it changes the session's current room, the rooms, connMeta,    *)
(* the rows or the goroutines.                                            *)
(***************************************************************************)
C28_Listing(c) == conn[c].msg.Event = "list" /\ conn[c].pc \in {"list.annot", "ret"}

C28_Status(i) == IF IsUserOnline(connMeta, i.other_user_id) THEN "online" ELSE "offline"

\* the handler did not take this step: a write of it panicked and the deferred
\* cleanup has begun
C28_Abandoned(c) == conn[c].pc = "list.annot" /\ conn'[c].pc \in {"td.bcast", "td.unreg"}

C28_ListReply ==
    /\ [](\A c \in ConnIDs :
            C28_Listing(c) =>
                /\ conn[c].pc = "list.annot" => (conn[c].log = <<>> /\ ~conn[c].loc.err)
                /\ conn[c].pc = "ret" =>
                      /\ Len(conn[c].log) = 1
                      /\ conn[c].log[1].op = "SendJSON" /\ conn[c].log[1].to = {c}
                      /\ conn[c].log[1].ev.event = "list"
                      /\ conn[c].loc.err => conn[c].log[1].ev.rooms = <<>>
                      /\ ~conn[c].loc.err =>
                            /\ conn[c].log[1].ev.rooms = conn[c].loc.items
                            /\ [i \in DOMAIN conn[c].loc.items |->
                                   [conn[c].loc.items[i] EXCEPT !.other_user_status = ""]]
                                 = GetUserRooms(UserOf[c])
                            /\ \A i \in DOMAIN conn[c].loc.items :
                                  conn[c].loc.items[i].other_user_status
                                      \in {"online", "offline"})
    /\ [][\A c \in ConnIDs :
            /\ (conn[c].pc = "loop" /\ conn'[c].pc # "loop" /\ conn'[c].msg.Event = "list") =>
                  /\ C28_Listing(c)'
                  /\ conn'[c].room = conn[c].room
                  /\ UNCHANGED <<rooms, connMeta, db, tasks>>
            /\ (C28_Listing(c) /\ conn'[c] # conn[c] /\ ~C28_Abandoned(c)) =>
                  /\ conn'[c].room = conn[c].room
                  /\ UNCHANGED <<rooms, connMeta, db, tasks>>
                  /\ conn[c].pc = "ret" => conn'[c].pc = "loop"
                  /\ conn[c].pc = "list.annot" =>
                        \A i \in DOMAIN conn[c].loc.items :
                           LET old == conn[c].loc.items[i]
                               new == conn'[c].loc.items[i]
                           IN  new.other_user_status # old.other_user_status =>
                                  /\ old.other_user_status = ""
                                  /\ new.other_user_status = C28_Status(old)]_vars

\* alice, with no current room, has asked for her list; bob was connected when the
\* first item was annotated and is gone by the time the list is written
C28_Witness ==
    \E c \in ConnIDs :
        /\ UserOf[c] = 1 /\ conn[c].pc = "ret" /\ conn[c].room = ""
        /\ conn[c].msg.Event = "list" /\ Len(conn[c].log) = 1
        /\ Len(conn[c].log[1].ev.rooms) = 2
        /\ conn[c].log[1].ev.rooms[1].other_user_status = "online"
        /\ conn[c].log[1].ev.rooms[2].other_user_status = "offline"
        /\ ~IsUserOnline(connMeta, 2)

\* the same list asked by a session viewing r1; and a list that could not be read
C28_WitnessJoined ==
    \E c \in ConnIDs :
        /\ conn[c].pc = "ret" /\ conn[c].room = "r1" /\ conn[c].msg.Event = "list"
        /\ Len(conn[c].log[1].ev.rooms) = 2

C28_WitnessFailed ==
    \E c \in ConnIDs :
        /\ conn[c].pc = "ret" /\ conn[c].msg.Event = "list" /\ conn[c].loc.err
        /\ conn[c].log = <<ESendJSON(c, ListEvent(<<>>), FALSE)>>

(***************************************************************************)
(* C29: a frame that is not text, is not JSON, or names an event the      *)
(* switch does not know is dropped: HandleMessage returns having called   *)
(* nothing, so nothing is written to any session; the session's current   *)
(* room, the rooms, connMeta, the rows and the goroutines are unchanged;  *)
(* and the session is back in its read loop, still connected.             *)
(***************************************************************************)
C29_Dropped(c) == conn[c].msg.Event \in OtherFrames

C29_OtherFramesIgnored ==
    /\ [](\A c \in ConnIDs : C29_Dropped(c) => (conn[c].pc = "ret" /\ conn[c].log = <<>>))
    /\ [][\A c \in ConnIDs :
            /\ (conn[c].pc = "loop" /\ C29_Dropped(c)') =>
                  /\ conn'[c].room = conn[c].room
                  /\ UNCHANGED <<rooms, connMeta, db, tasks>>
            /\ (C29_Dropped(c) /\ conn'[c] # conn[c]) =>
                  /\ conn'[c].pc = "loop" /\ conn'[c].room = conn[c].room
                  /\ c \in DOMAIN connMeta'
                  /\ UNCHANGED <<rooms, connMeta, db, tasks>>]_vars

\* alice, viewing r1 with bob, has sent an event the server does not know; it is
\* the second frame of the run
C29_Witness ==
    /\ conn["c1"].pc = "ret" /\ conn["c1"].msg.Event = "typing"
    /\ conn["c1"].room = "r1" /\ JoinedTo("r1") = {"c1", "c3"}
    /\ frames = 2 /\ tasks = {}

(***************************************************************************)
(* The registry lock and the calls made under it                           *)
(***************************************************************************)
\* rooms.go:55-56  Broadcast: m.mu.RLock(); defer m.mu.RUnlock() -- the connections
\*                 whose handler is between the two
ConnsHoldingRLock == {c \in ConnIDs : conn[c].pc \in {"bc.loop", "bc.write"}}

\* rooms.go:174-175  SendToUser: the same, for the notifying goroutines
TasksHoldingRLock == {t \in tasks : t.pc \in {"send", "send.write"}}

\* db.go:102  the goroutines inside c.WriteJSON(payload)
ConnsInWriteJSON == {c \in ConnIDs : conn[c].pc \in {"own.write", "bc.write"}}

TasksInWriteJSON == {t \in tasks : t.pc = "send.write"}

(***************************************************************************)
(* C30: no goroutine holds the registry lock, for reading or for writing, *)
(* while a call to the database or a write to a socket that it made is in *)
(* progress.                                                               *)
(***************************************************************************)
C30_NoIOUnderLock ==
    /\ ConnsHoldingRLock \cap ConnsInWriteJSON = {}
    /\ TasksHoldingRLock \cap TasksInWriteJSON = {}

\* the half that holds: a step that calls the database (SaveMessage adds the row)
\* is taken by a handler that holds no lock before or after it
C30_DatabaseOutsideLock ==
    [][db' # db =>
          \A c \in ConnIDs :
             conn'[c] # conn[c] => (c \notin ConnsHoldingRLock
                                    /\ c \notin ConnsHoldingRLock')]_vars

(***************************************************************************)
(* The connection goroutines are scheduled; the detached goroutines need   *)
(* not be: a lookup of theirs may never return.                             *)
(***************************************************************************)
\* part_003:36-62  the steps a connection goroutine takes without reading
LifeStep(c) == Welcome(c) \/ TdBroadcast(c) \/ TdUnregister(c) \/ TdClose(c)

SpecSessionLive ==
    Init /\ [][NextSession]_vars /\ \A c \in ConnIDs : WF_vars(LifeStep(c))

(***************************************************************************)
(* C31: the presence goroutine is detached from the connection that       *)
(* started it.  An accepted connection gets to its read loop and a        *)
(* connection being torn down gets unregistered and closed, whether the   *)
(* lookup of the interested users returns, fails or never returns; a      *)
(* lookup that fails ends its goroutine with nothing sent and leaves      *)
(* every connection as it was.                                            *)
(***************************************************************************)
C31_LookupFailed(t) == t \in tasks /\ t.pc = "lookup" /\ tasks' = tasks \ {t}

C31_WitnessAccept ==
    /\ conn["c3"].pc = "loop" /\ StatusTask("c3", "online") \in tasks

(***************************************************************************)
(* C32: the connected event is the first thing written to a session: no   *)
(* notification of a detached goroutine is written to it between its      *)
(* registration and its welcome.                                          *)
(***************************************************************************)
\* the sessions a detached goroutine has written to
C32_WrittenByTasks == UNION {UNION {t.seen[i].to : i \in DOMAIN t.seen} : t \in tasks}

C32_ConnectedFirst ==
    \A c \in ConnIDs : conn[c].pc = "welcome" => c \notin C32_WrittenByTasks

\* the half that holds: the welcome is written once, by the step that takes the
\* connection to its read loop, before any frame is read
C32_OneWelcome ==
    [][\A c \in ConnIDs :
          LET welcomed == /\ conn'[c].log # <<>>
                          /\ conn'[c].log[Len(conn'[c].log)].op = "SendJSON"
                          /\ conn'[c].log[Len(conn'[c].log)].ev = [event |-> "connected"]
                          /\ conn'[c].log # conn[c].log
          IN  /\ welcomed <=> (conn[c].pc = "welcome" /\ conn'[c].pc = "loop")
              /\ conn'[c].pc = "loop" => conn[c].pc \in {"welcome", "ret", "loop"}]_vars

(***************************************************************************)
(* C33: every row given to SaveMessage, by handleChat or by the voice     *)
(* upload, whether the save succeeds or fails, has a text or a voice       *)
(* reference that is not empty.                                            *)
(***************************************************************************)
C33_HasContent(row) == row.text # "" \/ row.voice # ""

C33_SavedHaveContent ==
    /\ \A i \in DOMAIN db : C33_HasContent(db[i])
    /\ \A c \in ConnIDs : \A k \in DOMAIN conn[c].log :
          conn[c].log[k].op = "SaveMessage" => C33_HasContent(conn[c].log[k].row)

\* a text chat of alice and a voice upload of bob, whose session views no room,
\* have both been saved
C33_Witness ==
    /\ Len(db) = 2
    /\ db[1].text = "hi" /\ db[1].voice = "" /\ db[1].userID = 1
    /\ db[2].text = "" /\ db[2].voice = "v.webm" /\ db[2].userID = 2
    /\ conn["c3"].room = "" /\ conn["c3"].pc = "loop" /\ conn["c3"].msg = NoMsg

(***************************************************************************)
(* C34: while a connection waits for its next frame, its currentRoom and  *)
(* the registry agree: the session is a member of room r exactly when r   *)
(* is its current room, so of no room when it has none; and at all times  *)
(* every member of a room has an entry in connMeta.                       *)
(***************************************************************************)
C34_BetweenEvents(c) == conn[c].pc \in {"loop", "ret"}

C34_RoomStateAgrees ==
    /\ \A c \in ConnIDs :
          C34_BetweenEvents(c) =>
             /\ conn[c].room \in RoomIDs \cup {""}
             /\ \A r \in RoomIDs \cup DOMAIN rooms :
                   (conn[c].room = r) <=> (c \in MembersOf(rooms, r))
    /\ \A r \in DOMAIN rooms : rooms[r] \subseteq DOMAIN connMeta

\* alice's session, the only one connected, has joined twice and now views r2: it
\* is the one member of r2 and r1 is gone
C34_Witness ==
    /\ conn["c1"].pc = "loop" /\ conn["c1"].room = "r2"
    /\ rooms = [r \in {"r2"} |-> {"c1"}]
    /\ DOMAIN connMeta = {"c1"}
    /\ frames = 2

(***************************************************************************)
(* C35: a room's history, chats and messages_seen events go only to       *)
(* sessions of users who are participants of the room in the database,    *)
(* and every saved message of a room was written by one of its            *)
(* participants.                                                           *)
(***************************************************************************)
C35_Participant(c, room) == UserOf[c] \in GetRoomParticipants(room)

C35_Entitled(c, e) ==
    /\ (e.op = "SendJSON" /\ e.ev.event = "history") => C35_Participant(c, e.ev.room)
    /\ (e.op = "Broadcast" /\ e.ev.event \in {"chat", "messages_seen"}) =>
          \A m \in e.to : C35_Participant(m, e.room)

C35_RoomIsolation ==
    /\ \A c \in ConnIDs : \A k \in DOMAIN conn[c].log : C35_Entitled(c, conn[c].log[k])
    /\ \A i \in DOMAIN db : db[i].userID \in GetRoomParticipants(db[i].room)

(***************************************************************************)
(* Presence at the level of the socket: what each session receives, in     *)
(* the order of the writes.  One session per user, so that every user has  *)
(* one "online" edge and one "offline" edge at most.                       *)
(***************************************************************************)
PresenceConns == {"c1", "c3"}

\* part_003:99-101, rooms.go:177-181  Manager.SendToUser(uid, statusMsg): the
\* message is written to every session of the user
StatusDeliver(t, p) ==
    /\ t.kind = "status" /\ t.pc = "loop" /\ p \in t.todo
    /\ LET w == SendToUser(connMeta, p, {})
       IN  /\ UpdateTask(t, [t EXCEPT !.todo = @ \ {p}, !.seen =
                               Append(@, Seen(p, "sent", LiveSessionsOf(p) # {}, FALSE,
                                              w, LiveSessionsOf(p)))])
           /\ conn' = [m \in ConnIDs |->
                         IF m \in w.ok
                         THEN [conn[m] EXCEPT !.inbox = Append(@, StatusMsg(t))]
                         ELSE conn[m]]
    /\ UNCHANGED <<rooms, connMeta, registered, api, db, frames>>

\* sessions connect and disconnect; the goroutines of notifyUserStatusChange run
NextPresence ==
    \/ \E c \in PresenceConns : Accept(c)
    \/ \E c \in PresenceConns : Welcome(c)
    \/ \E c \in PresenceConns : ReadError(c)
    \/ \E c \in PresenceConns : TdUnregister(c)
    \/ \E c \in PresenceConns : TdClose(c)
    \/ \E t \in tasks : TaskLookup(t)
    \/ \E t \in tasks, p \in UserIDs : StatusDeliver(t, p)
    \/ \E t \in tasks : TaskExit(t)

SpecPresence == Init /\ [][NextPresence]_vars

(***************************************************************************)
(* C36: a session receives the user_status events of another user in the  *)
(* order of that user's presence edges: with one session per user, never  *)
(* "offline" before "online".                                              *)
(***************************************************************************)
\* the statuses of user u received by session m, in the order received
C36_StatusesOf(m, u) ==
    LET about == SelectSeq(conn[m].inbox,
                           LAMBDA e : e.event = "user_status" /\ e.user_id = u)
    IN  [i \in DOMAIN about |-> about[i].status]

C36_StatusesInEdgeOrder ==
    \A m \in PresenceConns, u \in UserIDs :
        C36_StatusesOf(m, u) \in {<<>>, <<"online">>, <<"offline">>, <<"online", "offline">>}

(***************************************************************************)
(* A chat and its hint at the level of the socket: what each session       *)
(* receives about which saved message, while the recipient joins and       *)
(* leaves.                                                                 *)
(***************************************************************************)
\* an event written to a socket, with the id of the saved message it is about
Received(id, ev) == [msg |-> id, ev |-> ev]

\* message.go:278-292  Manager.Broadcast(currentRoom, chat, ""): every member's
\* socket is written to; go notifyNewMessage(...)
ChatDeliver(c) ==
    /\ conn[c].pc = "chat.bcast"
    /\ LET row  == conn[c].loc.row
           w    == Broadcast(rooms, conn[c].room, "", {})
           self == [conn[c] EXCEPT !.pc = "ret",
                                   !.log = @ \o <<EBroadcast(conn[c].room, ChatEvent(row),
                                                             "", w),
                                                  EGo("hint", "")>>]
       IN  /\ conn' = [m \in ConnIDs |->
                         LET base == IF m = c THEN self ELSE conn[m]
                         IN  IF m \in w.ok
                             THEN [base EXCEPT !.inbox =
                                     Append(@, Received(row.id, ChatEvent(row)))]
                             ELSE base]
           /\ tasks' = tasks \cup {HintTask("hint", row.id, conn[c].room, UserOf[c],
                                            Username(c), conn[c].msg.Text, row.created_at)}
    /\ UNCHANGED <<rooms, connMeta, registered, api, db, frames>>

\* message.go:336, rooms.go:177-181  Manager.SendToUser(participantID, notification):
\* every session of the participant is written to
HintDeliver(t) ==
    /\ t.kind = "hint" /\ t.pc = "send"
    /\ LET n == Len(t.seen)
           w == SendToUser(connMeta, t.cur, {})
       IN  /\ UpdateTask(t, [t EXCEPT !.pc = "loop", !.cur = 0,
                               !.seen[n].why = "sent", !.seen[n].to = w.to,
                               !.seen[n].ok = w.ok, !.seen[n].ev = Notification(t),
                               !.seen[n].sessions = LiveSessionsOf(t.cur)])
           /\ conn' = [m \in ConnIDs |->
                         IF m \in w.ok
                         THEN [conn[m] EXCEPT !.inbox =
                                 Append(@, Received(t.id, Notification(t)))]
                         ELSE conn[m]]
    /\ UNCHANGED <<rooms, connMeta, registered, api, db, frames>>

\* alice's first session and bob's session view r1; alice's second views no room
InitHintRace ==
    /\ conn = [c \in ConnIDs |-> Established(IF c \in {"c1", "c3"} THEN "r1" ELSE "")]
    /\ rooms = [r \in {"r1"} |-> {"c1", "c3"}]
    /\ connMeta = [c \in ConnIDs |-> Meta(UserOf[c], Username(c))]
    /\ registered = {}
    /\ api = NoCall
    /\ tasks = {}
    /\ db = <<>>
    /\ frames = 0

\* alice chats in r1; bob's session leaves, or joins a room; the hint goroutine runs
NextHintRace ==
    \/ RecvChat("c1", "hi", "")
    \/ ChatDeliver("c1")
    \/ \E c \in {"c1", "c3"} : Return(c)
    \/ RecvLeave("c3")
    \/ LeaveBroadcast("c3")
    \/ \E r \in RoomIDs : RecvJoin("c3", r)
    \/ JoinBroadcastLeave("c3")
    \/ JoinJoin("c3")
    \/ JoinBroadcast("c3")
    \/ JoinHistory("c3")
    \/ \E t \in tasks : TaskLookup(t)
    \/ \E t \in tasks, p \in UserIDs : HintCheckOnline(t, p)
    \/ \E t \in tasks : HintCheckInRoom(t)
    \/ \E t \in tasks : HintDeliver(t)
    \/ \E t \in tasks : TaskExit(t)

SpecHintRace == InitHintRace /\ [][NextHintRace]_vars

(***************************************************************************)
(* C37: no session is sent both the chat broadcast and the new_message    *)
(* hint of the same saved message.                                        *)
(***************************************************************************)
C37_About(m, event) ==
    {conn[m].inbox[i].msg : i \in {k \in DOMAIN conn[m].inbox :
                                      conn[m].inbox[k].ev.event = event}}

C37_ChatOrHint ==
    \A m \in ConnIDs : C37_About(m, "chat") \cap C37_About(m, "new_message") = {}

(***************************************************************************)
(* C38: the chats of a room reach every session in the order of their     *)
(* ids: a session that has received the chats of two saved messages has   *)
(* received the one with the smaller id first.                            *)
(***************************************************************************)
C38_PersistenceOrder ==
    \A m \in ConnIDs : \A i, j \in 1..Len(db) :
        (i < j /\ db[i].room = db[j].room /\ ChatPlace(m, i) > 0 /\ ChatPlace(m, j) > 0)
            => ChatPlace(m, i) < ChatPlace(m, j)

(***************************************************************************)
(* The registry's RWMutex (rooms.go:13): a finite set of RoomManager calls *)
(* issued together, each taking the lock as its method does.  In this      *)
(* specification api holds the mutex and the calls in progress.            *)
(***************************************************************************)
LockCalls == {1, 2, 3}

LockOps == {"Join", "Leave", "RegisterConnection", "UnregisterConnection",
            "Broadcast", "SendToUser", "SendToUsers", "IsUserOnline", "IsUserInRoom"}

\* one instruction of a method: what it does to the mutex or under it
Ins(i, op, arg) == [i |-> i, op |-> op, arg |-> arg]

\* rooms.go:31-32, 43-44, 104-105, 125-126  m.mu.Lock(); defer m.mu.Unlock(); body
WriteLocked(op) == <<Ins("Lock", op, 0), Ins("Mutate", op, 0), Ins("Unlock", op, 0)>>

\* rooms.go:90-91, 214-215  m.mu.RLock(); defer m.mu.RUnlock(); a lookup
ReadLocked(op) == <<Ins("RLock", op, 0), Ins("Look", op, 0), Ins("RUnlock", op, 0)>>

\* rooms.go:55-71, 174-182  m.mu.RLock(); defer m.mu.RUnlock(); a loop of SendJSON
RangeLocked(op, arg) ==
    <<Ins("RLock", op, arg), Ins("Range", op, arg), Ins("RUnlock", op, arg)>>

\* mutant: SendToUsers takes the read lock itself around its loop of SendToUser
SendToUsersHoldingLock(userIDs) ==
    <<Ins("RLock", "SendToUsers", 0)>>
        \o RangeLocked("SendToUser", userIDs[1]) \o RangeLocked("SendToUser", userIDs[2])
        \o <<Ins("RUnlock", "SendToUsers", 0)>>

\* rooms.go:187-191  for _, userID := range userIDs { m.SendToUser(userID, message) }
SendToUsersCalls(userIDs) ==
    RangeLocked("SendToUser", userIDs[1]) \o RangeLocked("SendToUser", userIDs[2])

\* the instructions of a call of the method, with the arguments of this run:
\* session c3 of bob and room r1, messages to alice (1) and to bob and alice
Program(op) ==
    IF op \in {"Join", "Leave", "RegisterConnection", "UnregisterConnection"}
    THEN WriteLocked(op)
    ELSE IF op \in {"IsUserOnline", "IsUserInRoom"} THEN ReadLocked(op)
    ELSE IF op = "Broadcast" THEN RangeLocked(op, 0)
    ELSE IF op = "SendToUser" THEN RangeLocked(op, 1)
    ELSE SendToUsersCalls(<<2, 1>>)

\* rooms.go:30-52, 103-156  the body of a method that takes the write lock
Mutated(op) ==
    IF op = "Join" THEN Join(rooms, connMeta, "r1", "c3", 2, "bob")
    ELSE IF op = "Leave"
    THEN [rooms |-> Leave(rooms, "r1", "c3"), connMeta |-> connMeta]
    ELSE IF op = "RegisterConnection"
    THEN [rooms |-> rooms, connMeta |-> RegisterConnection(connMeta, "c3", 2, "bob").connMeta]
    ELSE LET r == UnregisterConnection(rooms, connMeta, "c3")
         IN  [rooms |-> r.rooms, connMeta |-> r.connMeta]

\* rooms.go:59-62, 177-178  the sockets the loop of a Broadcast to r1 or of a
\* SendToUser(arg) will write to
Targets(op, arg) ==
    IF op = "Broadcast" THEN MembersOf(rooms, "r1")
    ELSE IF op = "SendToUser" THEN {k \in DOMAIN connMeta : connMeta[k].UserID = arg}
    ELSE {}

mu == api.mu
calls == api.calls

NoReaders == [k \in LockCalls |-> 0]

\* a call that has returned
Returned(k) == calls[k].prog = <<>>

\* the instruction call k is at
At(k, i) == ~Returned(k) /\ calls[k].pc = "run" /\ Head(calls[k].prog).i = i

Advance(call) == [call EXCEPT !.prog = Tail(@)]

FrameLock == UNCHANGED <<registered, conn, tasks, db, frames>>

\* sync.RWMutex.Lock, first half: the writer announces itself; readers that come
\* after it wait
MuLockCall(k) ==
    /\ At(k, "Lock")
    /\ api' = [api EXCEPT !.mu.pending = @ \cup {k}, !.calls[k].pc = "wait"]
    /\ UNCHANGED <<rooms, connMeta>> /\ FrameLock

\* sync.RWMutex.Lock, second half: no reader and no writer is left, the lock is taken
MuLock(k) ==
    /\ ~Returned(k) /\ calls[k].pc = "wait"
    /\ mu.w = 0 /\ mu.r = NoReaders
    /\ api' = [api EXCEPT !.mu.w = k, !.mu.pending = @ \ {k},
                          !.calls[k] = [Advance(@) EXCEPT !.pc = "run"]]
    /\ UNCHANGED <<rooms, connMeta>> /\ FrameLock

\* the body of Join, Leave, RegisterConnection, UnregisterConnection
Mutate(k) ==
    /\ At(k, "Mutate")
    /\ LET r == Mutated(calls[k].op)
       IN  rooms' = r.rooms /\ connMeta' = r.connMeta
    /\ api' = [api EXCEPT !.calls[k] = Advance(@)]
    /\ FrameLock

\* the deferred m.mu.Unlock()
MuUnlock(k) ==
    /\ At(k, "Unlock")
    /\ api' = [api EXCEPT !.mu.w = 0, !.calls[k] = Advance(@)]
    /\ UNCHANGED <<rooms, connMeta>> /\ FrameLock

\* sync.RWMutex.RLock: granted when no writer holds the lock or waits for it
MuRLock(k) ==
    /\ At(k, "RLock")
    /\ mu.w = 0 /\ mu.pending = {}
    /\ LET h == Head(calls[k].prog)
       IN  api' = [api EXCEPT !.mu.r[k] = @ + 1,
                              !.calls[k] = [Advance(@) EXCEPT
                                              !.left = Targets(h.op, h.arg)]]
    /\ UNCHANGED <<rooms, connMeta>> /\ FrameLock

\* the lookup of IsUserOnline, IsUserInRoom
Look(k) ==
    /\ At(k, "Look")
    /\ api' = [api EXCEPT !.calls[k] = Advance(@)]
    /\ UNCHANGED <<rooms, connMeta>> /\ FrameLock

\* rooms.go:59-66, 177-179  the loop: enter SendJSON for the next socket, or end
Range(k) ==
    /\ At(k, "Range")
    /\ IF calls[k].left = {}
       THEN api' = [api EXCEPT !.calls[k] = Advance(@)]
       ELSE \E m \in calls[k].left :
               api' = [api EXCEPT !.calls[k].pc = "io", !.calls[k].left = @ \ {m}]
    /\ UNCHANGED <<rooms, connMeta>> /\ FrameLock

\* db.go:102  the transport write returns
Written(k) ==
    /\ ~Returned(k) /\ calls[k].pc = "io"
    /\ api' = [api EXCEPT !.calls[k].pc = "run"]
    /\ UNCHANGED <<rooms, connMeta>> /\ FrameLock

\* the deferred m.mu.RUnlock()
MuRUnlock(k) ==
    /\ At(k, "RUnlock")
    /\ api' = [api EXCEPT !.mu.r[k] = @ - 1, !.calls[k] = Advance(@)]
    /\ UNCHANGED <<rooms, connMeta>> /\ FrameLock

CallStep(k) ==
    \/ MuLockCall(k)
    \/ MuLock(k)
    \/ Mutate(k)
    \/ MuUnlock(k)
    \/ MuRLock(k)
    \/ Look(k)
    \/ Range(k)
    \/ Written(k)
    \/ MuRUnlock(k)

\* alice's session c1 views r1; bob's session c3 is registered; any three calls
InitLock ==
    /\ rooms = [r \in {"r1"} |-> {"c1"}]
    /\ connMeta = [c \in {"c1", "c3"} |-> Meta(UserOf[c], Username(c))]
    /\ \E ops \in [LockCalls -> LockOps] :
          api = [mu    |-> [w |-> 0, r |-> NoReaders, pending |-> {}],
                 calls |-> [k \in LockCalls |->
                              [op |-> ops[k], prog |-> Program(ops[k]), pc |-> "run",
                               left |-> {}]]]
    /\ registered = {}
    /\ InitSystem

NextLock == \E k \in LockCalls : CallStep(k)

\* every call is a goroutine that is scheduled, and every write returns
SpecLock == InitLock /\ [][NextLock]_vars /\ \A k \in LockCalls : WF_vars(CallStep(k))

(***************************************************************************)
(* C39: with every transport write returning, every one of a finite set   *)
(* of concurrent RoomManager calls returns; no call asks for the lock     *)
(* while it holds it; readers share the lock and exclude writers.         *)
(***************************************************************************)
C39_Holds(k) == mu.r[k] > 0 \/ mu.w = k

C39_DeadlockFree ==
    /\ <>(\A k \in LockCalls : Returned(k))
    /\ [](mu.w # 0 => mu.r = NoReaders)
    /\ [][\A k \in LockCalls :
            (mu'.r[k] > mu.r[k] \/ (k \in mu'.pending /\ k \notin mu.pending))
                => ~C39_Holds(k)]_vars

\* a Broadcast is inside a write with the read lock held, a Join waits for the
\* write lock, and a SendToUsers waits behind the Join for its read lock
C39_Witness ==
    /\ calls[1].op = "Broadcast" /\ calls[1].pc = "io" /\ mu.r[1] = 1
    /\ calls[2].op = "Join" /\ calls[2].pc = "wait" /\ mu.pending = {2}
    /\ calls[3].op = "SendToUsers" /\ At(3, "RLock") /\ Len(calls[3].prog) = 3

\* all three have returned: bob's session is a member of r1
C39_WitnessReturned ==
    /\ \A k \in LockCalls : Returned(k)
    /\ calls[1].op = "Broadcast" /\ calls[2].op = "Join" /\ calls[3].op = "SendToUsers"
    /\ rooms = [r \in {"r1"} |-> {"c1", "c3"}] /\ mu.w = 0 /\ mu.r = NoReaders

(***************************************************************************)
(* The username field of inbound frames.  models.WSMessage has a Username *)
(* field that the client's JSON may set; HandleMessage overwrites it       *)
(* before it dispatches (message.go:53), and handleLeave is the one        *)
(* handler that reads it back (message.go:211).  In this specification     *)
(* api holds the name each client writes into the frames it sends.         *)
(***************************************************************************)
\* what a client may write as "username": another user's name, or nobody's
ClientNames == {"bob", "mallory"}

ForgeConns == {"c1", "c3"}

\* message.go:46-50  the frame as parsed from the client's JSON
Parsed(m, username) ==
    [Event |-> m.Event, Room |-> m.Room, Text |-> m.Text, Voice |-> m.Voice,
     Username |-> username]

\* mutant: the parsed frame is dispatched as the client sent it
OverriddenNot(wsMsg, username) == wsMsg

\* message.go:53  wsMsg.Username = username
Overridden(wsMsg, username) == [wsMsg EXCEPT !.Username = username]

\* the message the handler of c's current frame was given
WsMsg(c) == Overridden(Parsed(conn[c].msg, api.sent[c]), Username(c))

\* message.go:208-215  the leave event carries msg.Username
LeaveBroadcastNamed(c) ==
    /\ conn[c].pc = "leave.bcast"
    /\ conn' = [conn EXCEPT ![c].pc = "ret", ![c].room = "",
                  ![c].log = @ \o
                    <<EBroadcast(conn[c].room,
                                 RoomEvent("leave", conn[c].room, WsMsg(c).Username), c,
                                 Broadcast(rooms, conn[c].room, c, {}))>>]
    /\ UNCHANGED <<rooms, connMeta, registered, api, tasks, db, frames>>

\* alice's first session and bob's session are established in r1, alice's second
\* has not connected yet; every client has chosen the name it will claim
InitForge ==
    /\ conn = [c \in ConnIDs |-> IF c \in ForgeConns THEN Established("r1") ELSE IdleConn]
    /\ rooms = [r \in {"r1"} |-> ForgeConns]
    /\ connMeta = [c \in ForgeConns |-> Meta(UserOf[c], Username(c))]
    /\ registered = {}
    /\ \E s \in [ConnIDs -> ClientNames] : s["c2"] = "bob" /\ api = [sent |-> s]
    /\ tasks = {}
    /\ db = <<>>
    /\ frames = 0

\* sessions connect, exchange frames and disconnect; bob uploads a voice message
NextForge ==
    \/ Accept("c2")
    \/ Welcome("c2")
    \/ ReadError("c1")
    \/ TdBroadcast("c1")
    \/ TdUnregister("c1")
    \/ TdClose("c1")
    \/ \E c \in ForgeConns : Return(c)
    \/ \E c \in ForgeConns, r \in RoomIDs : RecvJoin(c, r)
    \/ \E c \in ForgeConns : JoinBroadcastLeave(c)
    \/ \E c \in ForgeConns : JoinJoin(c)
    \/ \E c \in ForgeConns : JoinBroadcast(c)
    \/ \E c \in ForgeConns : JoinHistory(c)
    \/ \E c \in ForgeConns : RecvLeave(c)
    \/ \E c \in ForgeConns : LeaveBroadcastNamed(c)
    \/ \E c \in ForgeConns : RecvChat(c, "hi", "")
    \/ \E c \in ForgeConns : ChatBroadcast(c)
    \/ \E c \in ForgeConns, ts \in ClientTimestamps : RecvSeen(c, ts, "")
    \/ \E c \in ForgeConns : SeenBroadcast(c)
    \/ \E u \in UploadUsers, r \in RoomIDs : UploadVoice(u, r)
    \/ \E t \in tasks : UploadBroadcast(t)
    \/ \E t \in tasks : TaskLookup(t)
    \/ \E t \in tasks, p \in UserIDs : StatusSend(t, p)
    \/ \E t \in tasks, p \in UserIDs : HintCheckOnline(t, p)
    \/ \E t \in tasks : HintCheckInRoom(t)
    \/ \E t \in tasks : HintSend(t)
    \/ \E t \in tasks : TaskExit(t)

SpecForge == InitForge /\ [][NextForge]_vars

(***************************************************************************)
(* C40: every outbound event that originates from a connection (joined,   *)
(* join, leave, chat, seen_successful, messages_seen, the sender_username *)
(* of new_message, user_status) and every persisted message carries the   *)
(* username authenticated for that connection's user; the username a      *)
(* client writes into its inbound frames appears in none of them.         *)
(***************************************************************************)
C40_Named == {"joined", "join", "leave", "chat", "seen_successful", "messages_seen",
              "new_message", "user_status"}

C40_Name(e) == IF e.event = "new_message" THEN e.sender_username ELSE e.username

\* the named events session c has sent while handling its frame, or in its cleanup
C40_SentBy(c) ==
    {e \in {conn[c].log[i].ev :
              i \in {j \in DOMAIN conn[c].log :
                       conn[c].log[j].op \in {"Broadcast", "SendJSON"}}} :
       e.event \in C40_Named}

\* the named events the goroutines started for user u carry
C40_SentFor(u) ==
    {Notification(t) : t \in {x \in tasks : x.userID = u /\ x.kind # "upload"}}
        \cup {ChatEvent(db[t.id]) : t \in {x \in tasks : x.userID = u /\ x.kind = "upload"}}

\* every username that has left the server: in an event, or in a saved message
C40_Usernames ==
    UNION {{C40_Name(e) : e \in C40_SentBy(c)} : c \in ConnIDs}
        \cup UNION {{C40_Name(e) : e \in C40_SentFor(u)} : u \in UserIDs}
        \cup {db[i].username : i \in DOMAIN db}

\* the frame c is handling came with a username that is not c's own
C40_Forged(c) == conn[c].msg # NoMsg /\ api.sent[c] # NameOf[UserOf[c]]

C40_WitnessSeen ==
    /\ api.sent["c3"] = "mallory"
    /\ conn["c3"].pc = "ret" /\ conn["c3"].msg.Event = "seen"
    /\ \E i \in DOMAIN conn["c3"].log :
          /\ conn["c3"].log[i].op = "Broadcast"
          /\ conn["c3"].log[i].ev.event = "messages_seen"
          /\ "c1" \in conn["c3"].log[i].ok

====
